---- MODULE Spec2Model ----
(***************************************************************************)
(* Model of the Brutus cipher engine: the Caesar and Vigenere generators   *)
(* of both revisions of encrypt.py (src/encrypt.py, called v1 here, and    *)
(* src/src/encrypt.py), the key hasher, the alphabet inversion, the byte   *)
(* stream wrapper of encrypt_file.py and the Enigma rotor engine with its  *)
(* memoised rotor application.                                             *)
(*                                                                         *)
(* Python values are modelled with their dynamic type: a key is an int, a  *)
(* str (a sequence of characters) or a list of such values.  Characters    *)
(* and byte values are natural numbers; a table records which of the two   *)
(* its symbols are, and whether it is a Python str or a list.              *)
(***************************************************************************)
EXTENDS Integers, Sequences, FiniteSets, TLC

\* ------------------------------------------------------------------ bounds
\* Longest text fed through a generator pipeline.
MaxText == 3
\* Longest Vigenere key / passphrase.
MaxKey == 2
\* Largest absolute value of an integer key.
MaxShift == 4

\* ------------------------------------------------------------ Python values
PyInt(k) == [t |-> "int", n |-> k, s |-> <<>>]
PyStr(cs) == [t |-> "str", n |-> 0, s |-> cs]
PyList(xs) == [t |-> "list", n |-> 0, s |-> xs]
PyNone == [t |-> "none", n |-> 0, s |-> <<>>]

\* The outcome of a call: a value, or the exception it raised.
Ok(v) == [err |-> "none", v |-> v]
Raise(e) == [err |-> e, v |-> 0]

Range(f) == {f[x] : x \in DOMAIN f}

SeqsUpTo(S, lo, hi) == UNION {[1..m -> S] : m \in lo..hi}

NoDup(q) == \A a, b \in DOMAIN q : q[a] = q[b] => a = b

\* ------------------------------------------------------------------ tables
\* table.py: the Python type of the alphabet ("str" or "list"),
\* table.elt: what its symbols are ("chr" or "int"), table.syms: the symbols.
StrTable(q) == [py |-> "str", elt |-> "chr", syms |-> q]
ListTable(q) == [py |-> "list", elt |-> "chr", syms |-> q]
IntTable(q) == [py |-> "list", elt |-> "int", syms |-> q]

\* len(table)
TLen(table) == Len(table.syms)

\* `symbol in table` for a symbol of the table's own element type.
InTable(symbol, table) == symbol \in Range(table.syms)

\* The positions of a sequence that hold x.
Positions(q, x) == {a \in DOMAIN q : q[a] = x}

\* table.index(symbol), 0-based: the first index holding the symbol.
Index(table, symbol) ==
    LET hits == Positions(table.syms, symbol)
    IN  (CHOOSE a \in hits : \A b \in hits : a <= b) - 1

\* The table symbol a key element compares equal to, as a set (empty: none).
\* A one-character str equals a character, an int equals an int symbol.
ElemSymbol(e, table) ==
    IF e.t = "str" /\ Len(e.s) = 1 /\ table.elt = "chr" THEN {e.s[1]}
    ELSE IF e.t = "int" /\ table.elt = "int" THEN {e.n}
    ELSE {}

\* Iterating a key: a str yields one-character strs, a list its elements.
Elements(k) ==
    IF k.t = "str" THEN [a \in DOMAIN k.s |-> PyStr(<<k.s[a]>>)]
    ELSE k.s

\* ------------------------------------------------------- alphabet inversion
\* invert_table: {value: key for key, value in enumerate(table)}.  A later
\* occurrence of a symbol overwrites the earlier one; nothing is raised.
LastIndex(q, x) ==
    LET hits == Positions(q, x)
    IN  (CHOOSE a \in hits : \A b \in hits : b <= a) - 1

invert_table(table) == [x \in Range(table.syms) |-> LastIndex(table.syms, x)]

\* ----------------------------------------------------------------- hashing
RECURSIVE SumSeq(_)
SumSeq(q) == IF q = <<>> THEN 0 ELSE q[1] + SumSeq(Tail(q))

\* inverted[symbol] for symbol in text if symbol in inverted
HashTerms(text, table) ==
    LET inverted == invert_table(table)
        es == Elements(text)
    IN  [a \in DOMAIN es |->
            IF ElemSymbol(es[a], table) = {} THEN 0
            ELSE LET x == CHOOSE y \in ElemSymbol(es[a], table) : TRUE
                 IN  IF x \in DOMAIN inverted THEN inverted[x] ELSE 0]

\* src/encrypt.py: the sum of the indices of the key's symbols, modulo
\* len(table); symbols that are not in the table are skipped.
hash_sequence_v1(text, table) ==
    IF text.t = "int" THEN Raise("TypeError")
    ELSE Ok(SumSeq(HashTerms(text, table)) % TLen(table))

\* str.index(sub): the lowest 0-based index at which sub occurs in the table.
Occurs(q, sub, a) ==
    /\ a + Len(sub) - 1 <= Len(q)
    /\ \A b \in DOMAIN sub : q[a + b - 1] = sub[b]

StrIndex(q, sub) ==
    LET hits == {a \in 1..(Len(q) + 1) : Occurs(q, sub, a)}
    IN  IF hits = {} THEN Raise("ValueError")
        ELSE Ok((CHOOSE a \in hits : \A b \in hits : a <= b) - 1)

\* list.index(x) for a str x: an element equal to x, or ValueError.
ListIndex(table, text) ==
    IF ElemSymbol(text, table) = {} THEN Raise("ValueError")
    ELSE LET x == CHOOSE y \in ElemSymbol(text, table) : TRUE
         IN  IF InTable(x, table) THEN Ok(Index(table, x))
             ELSE Raise("ValueError")

\* src/src/encrypt.py: a str is looked up as a whole with table.index, an
\* int is returned as it is, any other sequence is summed as in v1.
hash_sequence(text, table) ==
    IF text.t = "str"
    THEN IF table.py = "str" THEN StrIndex(table.syms, text.s)
         ELSE ListIndex(table, text)
    ELSE IF text.t = "int" THEN Ok(text.n)
    ELSE Ok(SumSeq(HashTerms(text, table)) % TLen(table))

\* ------------------------------------------------------------ shift_symbol
\* shift_symbol moving against the offset (index - shift).
shift_symbol_m(symbol, shift, table) ==
    IF ~InTable(symbol, table) THEN Ok(symbol)
    ELSE IF shift.t # "int" THEN Raise("TypeError")
    ELSE Ok(table.syms[((Index(table, symbol) - shift.n) % TLen(table)) + 1])

\* src/src/encrypt.py: a symbol outside the table is returned unchanged.
shift_symbol(symbol, shift, table) ==
    IF ~InTable(symbol, table) THEN Ok(symbol)
    ELSE IF shift.t # "int" THEN Raise("TypeError")
    ELSE Ok(table.syms[((Index(table, symbol) + shift.n) % TLen(table)) + 1])

\* src/encrypt.py, support_hashing: a key that is not an int is hashed.
support_hashing(key, table) ==
    IF key.t = "int" THEN Ok(key.n) ELSE hash_sequence_v1(key, table)

\* src/encrypt.py: hashes the key first, then raises ValueError for a symbol
\* outside the table.
shift_symbol_v1(symbol, shift, table) ==
    LET k == support_hashing(shift, table)
    IN  IF k.err # "none" THEN k
        ELSE IF ~InTable(symbol, table) THEN Raise("ValueError")
        ELSE Ok(table.syms[((Index(table, symbol) + k.v) % TLen(table)) + 1])

\* -------------------------------------------------------------- generators
\* A generator object: the values its closure holds and its enumerate count.
CaesarGen(offset) ==
    [alg |-> "caesar", off |-> offset, key |-> PyNone, reverse |-> FALSE, i |-> 0]
VigenereGen(k, rv) ==
    [alg |-> "vigenere", off |-> PyNone, key |-> k, reverse |-> rv, i |-> 0]
NoGen == [alg |-> "none", off |-> PyNone, key |-> PyNone, reverse |-> FALSE, i |-> 0]

\* src/src/encrypt.py
caesar_shift_sequence(offset, table) == Ok(CaesarGen(offset))

caesar_encrypt_sequence(k, table) == caesar_shift_sequence(k, table)

\* caesar_decrypt_sequence without the negation of the key.
caesar_decrypt_sequence_m(k, table) ==
    IF k.t # "int" THEN Raise("TypeError")
    ELSE caesar_shift_sequence(k, table)

\* -key is evaluated at the call: a key that is no int raises TypeError.
caesar_decrypt_sequence(k, table) ==
    IF k.t # "int" THEN Raise("TypeError")
    ELSE caesar_shift_sequence(PyInt(-k.n), table)

\* assert_len is accepted and never read.
vigenere_shift_sequence(textlen, k, rv, table, al) == Ok(VigenereGen(k, rv))

vigenere_encrypt_sequence(textlen, k, table) ==
    vigenere_shift_sequence(textlen, k, FALSE, table, FALSE)

vigenere_decrypt_sequence(textlen, k, table) ==
    vigenere_shift_sequence(textlen, k, TRUE, table, FALSE)

\* src/encrypt.py: every function is wrapped in support_hashing.
caesar_shift_sequence_v1(offset, table) ==
    LET h == support_hashing(offset, table)
    IN  IF h.err # "none" THEN h ELSE Ok(CaesarGen(PyInt(h.v)))

caesar_encrypt_sequence_v1(k, table) ==
    LET h == support_hashing(k, table)
    IN  IF h.err # "none" THEN h ELSE caesar_shift_sequence_v1(PyInt(h.v), table)

caesar_decrypt_sequence_v1(k, table) ==
    LET h == support_hashing(k, table)
    IN  IF h.err # "none" THEN h ELSE caesar_shift_sequence_v1(PyInt(-h.v), table)

\* assert not assert_len or len(key) == len(text)
vigenere_shift_sequence_v1(textlen, k, rv, table, al) ==
    IF al /\ Len(k.s) # textlen THEN Raise("AssertionError")
    ELSE Ok(VigenereGen(k, rv))

vigenere_encrypt_sequence_v1(textlen, k, table) ==
    vigenere_shift_sequence_v1(textlen, k, FALSE, table, FALSE)

vigenere_decrypt_sequence_v1(textlen, k, table) ==
    vigenere_shift_sequence_v1(textlen, k, TRUE, table, FALSE)

\* The per-position shift starting the key one element late: key[(i + 1) % len(key)].
VigenereShift_m(g, table) ==
    LET skey == Elements(g.key)[((g.i + 1) % Len(g.key.s)) + 1]
        h == IF skey.t # "int" THEN hash_sequence(skey, table) ELSE Ok(skey.n)
    IN  IF h.err # "none" THEN h
        ELSE Ok(h.v * (IF g.reverse THEN -1 ELSE 1))

\* The per-position shift of a Vigenere generator: key[i % len(key)], hashed
\* unless it is an int, negated when reverse; src/src/encrypt.py.
VigenereShift(g, table) ==
    LET skey == Elements(g.key)[(g.i % Len(g.key.s)) + 1]
        h == IF skey.t # "int" THEN hash_sequence(skey, table) ELSE Ok(skey.n)
    IN  IF h.err # "none" THEN h
        ELSE Ok(h.v * (IF g.reverse THEN -1 ELSE 1))

\* The same expression in src/encrypt.py, with that revision's hash.
VigenereShift_v1(g, table) ==
    LET skey == Elements(g.key)[(g.i % Len(g.key.s)) + 1]
        h == IF skey.t # "int" THEN hash_sequence_v1(skey, table) ELSE Ok(skey.n)
    IN  IF h.err # "none" THEN h
        ELSE Ok(h.v * (IF g.reverse THEN -1 ELSE 1))

\* next(generator) on the symbol its source yields; src/src/encrypt.py.
GenNext(g, symbol, table) ==
    IF g.alg = "caesar" THEN shift_symbol(symbol, g.off, table)
    ELSE LET d == VigenereShift(g, table)
         IN  IF d.err # "none" THEN d
             ELSE shift_symbol(symbol, PyInt(d.v), table)

\* next(generator); src/encrypt.py.
GenNext_v1(g, symbol, table) ==
    IF g.alg = "caesar" THEN shift_symbol_v1(symbol, g.off, table)
    ELSE LET d == VigenereShift_v1(g, table)
         IN  IF d.err # "none" THEN d
             ELSE shift_symbol_v1(symbol, PyInt(d.v), table)

Advance(g) == [g EXCEPT !.i = @ + 1]

\* ------------------------------------------------------------------ Enigma
\* class EnigmaRotor: an alphabet, a position and the initial mapping.
EnigmaRotor(alphabet, position, mapping) ==
    [alphabet |-> alphabet, position |-> position, init_mapping |-> mapping]

\* init_mapping[position:] + init_mapping[:position]
mapping_list(r) ==
    LET m == r.init_mapping
        p == IF r.position > Len(m) THEN Len(m) ELSE r.position
    IN  [a \in 1 .. Len(m) |-> IF a + p <= Len(m) THEN m[a + p] ELSE m[a + p - Len(m)]]

\* dict(zip(keys, values)): the last pair of a key wins, zip stops at the
\* shorter sequence.
ZipDict(keys, values) ==
    LET m == IF Len(keys) < Len(values) THEN Len(keys) ELSE Len(values)
        ks == SubSeq(keys, 1, m)
    IN  [x \in Range(ks) |-> values[LastIndex(ks, x) + 1]]

mapping(r) == ZipDict(r.alphabet, mapping_list(r))

reverse_mapping(r) == ZipDict(mapping_list(r), r.alphabet)

\* __call__: encrypts one symbol; a symbol that is no key passes unchanged.
EnigmaRotor_call(r, x) ==
    LET m == mapping(r) IN IF x \notin DOMAIN m THEN x ELSE m[x]

\* __getitem__: decrypts one symbol.
EnigmaRotor_getitem(r, x) ==
    LET m == reverse_mapping(r) IN IF x \notin DOMAIN m THEN x ELSE m[x]

\* __next__: the rotor steps by one position.
EnigmaRotor_next_m(r) ==
    [r EXCEPT !.position = r.position + 1]

EnigmaRotor_next(r) ==
    [r EXCEPT !.position = (r.position + 1) % Len(r.alphabet)]

\* hash(symbol) of a small non-negative int is the int itself.
SymbolHash(x) == x

\* __hash__: (sum(hash(symbol) * (i + 1) for i, symbol in
\* enumerate(mapping_list)) + position) % 2**32.  The sums of the rotors
\* modelled are non-negative and far below 2**32, so the reduction leaves
\* them as they are.  The class defines no __eq__: two rotors are equal only
\* when they are the same object.
EnigmaRotor_hash(r) ==
    LET ml == mapping_list(r)
    IN  SumSeq([a \in DOMAIN ml |-> SymbolHash(ml[a]) * a]) + r.position

\* EnigmaContext.rotors with the rotors started from the caller's position.
EnigmaContext_rotors_m(rs, offs) ==
    LET m == IF Len(rs) < Len(offs) THEN Len(rs) ELSE Len(offs)
    IN  [k \in 1 .. m |->
            EnigmaRotor(rs[k].alphabet, (rs[k].position + offs[k]) % Len(rs[k].alphabet),
                        rs[k].init_mapping)]

\* EnigmaContext.rotors: a fresh rotor per (rotor, offset) pair of the zip.
EnigmaContext_rotors(rs, offs) ==
    LET m == IF Len(rs) < Len(offs) THEN Len(rs) ELSE Len(offs)
    IN  [k \in 1 .. m |->
            EnigmaRotor(rs[k].alphabet, offs[k] % Len(rs[k].alphabet), rs[k].init_mapping)]

\* The identity of a rotor object.  The k-th rotor the caller passes is the
\* object <<0, k>>; EnigmaContext.rotors constructs a new EnigmaRotor for
\* every rotor of every traversal, the k-th one of traversal t being <<t, k>>.
RotorObject_m(t, k) == <<0, k>>

RotorObject(t, k) == <<t, k>>

\* A key of the cache of enigma_apply_recursive: the symbol, the rotor objects
\* of the tuple and the keyword part of the call.  The hash stored with an
\* entry is the one computed when it was inserted; the hash of a tuple is
\* taken to differ whenever the hashes of its elements do.
CacheKey(symbol, t, stack, kw) ==
    [sym |-> symbol, ids |-> [a \in DOMAIN stack |-> RotorObject(t, stack[a])], kw |-> kw]

CacheHash(symbol, ctxr, stack, kw) ==
    <<SymbolHash(symbol), [a \in DOMAIN stack |-> EnigmaRotor_hash(ctxr[stack[a]])], kw>>

\* The dict lookup: an entry with the same hash whose key compares equal.
CacheHits(cache, k, h) == {e \in cache : e.h = h /\ e.key = k}

Front(q) == SubSeq(q, 1, Len(q) - 1)

\* enigma_apply_recursive under @cache.  ctxr are the rotors of traversal t
\* in their present positions, stack holds the indices of the rotors of the
\* tuple passed, kw is the keyword part of the call ("" when inverted is
\* not passed).  Yields the result and the cache after the call.
RECURSIVE enigma_apply_recursive(_, _, _, _, _, _, _)
enigma_apply_recursive(symbol, ctxr, t, stack, inverted, kw, cache) ==
    LET k == CacheKey(symbol, t, stack, kw)
        h == CacheHash(symbol, ctxr, stack, kw)
        hits == CacheHits(cache, k, h)
    IN  IF hits # {} THEN [v |-> (CHOOSE e \in hits : TRUE).v, cache |-> cache]
        ELSE IF Len(stack) = 0
        THEN [v |-> symbol, cache |-> cache \cup {[key |-> k, h |-> h, v |-> symbol]}]
        ELSE IF inverted
        THEN LET inner == enigma_apply_recursive(symbol, ctxr, t, Tail(stack),
                                                  TRUE, "inverted=True", cache)
                 v == EnigmaRotor_getitem(ctxr[stack[1]], inner.v)
             IN  [v |-> v, cache |-> inner.cache \cup {[key |-> k, h |-> h, v |-> v]}]
        ELSE LET inner == enigma_apply_recursive(symbol, ctxr, t, Front(stack),
                                                  FALSE, "", cache)
                 v == EnigmaRotor_call(ctxr[stack[Len(stack)]], inner.v)
             IN  [v |-> v, cache |-> inner.cache \cup {[key |-> k, h |-> h, v |-> v]}]

\* ----------------------------------------------------------- Caesar breaker
\* Characters are code points.
SPACE == 32

\* text.split(char) for a one-character separator: the fragments between
\* the occurrences of char, empty ones included.
RECURSIVE split(_, _)
split(txt, char) ==
    LET hits == Positions(txt, char)
    IN  IF hits = {} THEN <<txt>>
        ELSE LET p == CHOOSE a \in hits : \A b \in hits : a <= b
             IN  <<SubSeq(txt, 1, p - 1)>> \o split(SubSeq(txt, p + 1, Len(txt)), char)

\* sum((len(word) - freqs['word_len']) ** 2 for word in text.split(char)).
\* word_len is the fraction wl[1] / wl[2]; the sum is kept times wl[2] ** 2,
\* which leaves the order of two sums as it is.
Deviation(txt, char, wl) ==
    LET parts == split(txt, char)
    IN  SumSeq([a \in DOMAIN parts |->
                   (wl[2] * Len(parts[a]) - wl[1]) * (wl[2] * Len(parts[a]) - wl[1])])

\* sorted(pairs, key=operator.itemgetter(1)): ascending and stable.
RECURSIVE sorted(_)
sorted(pairs) ==
    IF pairs = <<>> THEN <<>>
    ELSE LET rest == sorted(Front(pairs))
             x == pairs[Len(pairs)]
             k == Cardinality({a \in DOMAIN rest : rest[a][2] <= x[2]})
         IN  SubSeq(rest, 1, k) \o <<x>> \o SubSeq(rest, k + 1, Len(rest))

\* The first generator of caesar_guess_shift: for every char of the alphabet
\* in the order of its deviation, (alphabet.index(char) - alphabet.index(' '))
\* % len(alphabet).
ShiftCandidates(txt, alphabet, wl) ==
    LET pairs == sorted([a \in DOMAIN alphabet.syms |->
                            <<alphabet.syms[a], Deviation(txt, alphabet.syms[a], wl)>>])
    IN  [a \in DOMAIN pairs |->
            (Index(alphabet, pairs[a][1]) - Index(alphabet, SPACE)) % TLen(alphabet)]

\* min_shift <= shift <= max_shift, with the upper bound left out.
InRange_m(shift, lo, hi) == lo <= shift /\ shift < hi

\* min_shift <= shift <= max_shift
InRange(shift, lo, hi) == lo <= shift /\ shift <= hi

\* next() of the second generator of caesar_guess_shift on the candidates
\* left: the first one in range, or StopIteration.
NextInRange(cands, lo, hi) ==
    LET hits == {a \in DOMAIN cands : InRange(cands[a], lo, hi)}
    IN  IF hits = {} THEN [stop |-> TRUE, v |-> 0, rest |-> <<>>]
        ELSE LET p == CHOOSE a \in hits : \A b \in hits : a <= b
             IN  [stop |-> FALSE, v |-> cands[p], rest |-> SubSeq(cands, p + 1, Len(cands))]

\* caesar_guess_shift up to the generator it returns.
caesar_guess_shift_call(txt, alphabet, wl) ==
    IF ~InTable(SPACE, alphabet) THEN Raise("AssertionError")
    ELSE Ok(ShiftCandidates(txt, alphabet, wl))

\* caesar_break's alphabet argument left at None.
NoAlphabet == [py |-> "none", elt |-> "chr", syms |-> <<>>]

\* string.ascii_lowercase, string.ascii_uppercase, string.digits and
\* string.punctuation as sets of code points.
ascii_lowercase == 97 .. 122
ascii_uppercase == 65 .. 90
ascii_letters == ascii_lowercase \cup ascii_uppercase
digits == 48 .. 57
punctuation == (33 .. 47) \cup (58 .. 64) \cup (91 .. 96) \cup (123 .. 126)

\* caesar_guess_alphabet with the space left in the set of characters.
caesar_guess_alphabet_m(txt) ==
    LET chars == Range(txt)
    IN  IF chars \subseteq ascii_lowercase THEN <<49>>
        ELSE IF chars \subseteq ascii_uppercase THEN <<50>>
        ELSE IF chars \subseteq ascii_letters THEN <<51>>
        ELSE IF chars \subseteq ascii_letters \cup digits THEN <<52>>
        ELSE IF chars \subseteq ascii_letters \cup digits \cup punctuation THEN <<53>>
        ELSE <<48>>

\* caesar_guess_alphabet: the tag '1' .. '5' or '0', a string of one character.
caesar_guess_alphabet(txt) ==
    LET chars == Range(txt) \ {SPACE}
    IN  IF chars \subseteq ascii_lowercase THEN <<49>>
        ELSE IF chars \subseteq ascii_uppercase THEN <<50>>
        ELSE IF chars \subseteq ascii_letters THEN <<51>>
        ELSE IF chars \subseteq ascii_letters \cup digits THEN <<52>>
        ELSE IF chars \subseteq ascii_letters \cup digits \cup punctuation THEN <<53>>
        ELSE <<48>>

\* ''.join(str(c) for c in caesar_decrypt_sequence(text, shift, table=alphabet)):
\* the symbols of a string alphabet are strings, str(c) leaves them as they are.
Decrypted(txt, shift, alphabet) ==
    [a \in DOMAIN txt |->
        (LET g == caesar_decrypt_sequence(PyInt(shift), alphabet)
         IN  GenNext(g.v, txt[a], alphabet)).v]

\* guess_text_with_words decrypting with the key not negated.
guess_text_with_words_m(txt, alphabet, shift) ==
    LET tokens == split(Decrypted(txt, -shift, alphabet), SPACE)
    IN  <<shift, Cardinality({a \in DOMAIN tokens : tokens[a] \in Range(tokens)})>>

\* caesar_break, guess_text_with_words: the local words = decrypted.split(' ')
\* hides the dictionary, so `word in words` looks each token up among the
\* tokens.
guess_text_with_words(txt, alphabet, shift) ==
    LET tokens == split(Decrypted(txt, shift, alphabet), SPACE)
    IN  <<shift, Cardinality({a \in DOMAIN tokens : tokens[a] \in Range(tokens)})>>

\* What [0] can be after list.sort(key=..., reverse=True) or
\* sorted(..., reverse=True) on a list of the results: the sort is stable, so
\* it is the result that came first in the list among those with the
\* greatest key f.
Best(results, f) == {g \in results : \A h \in results : h[f] <= g[f]}

\* src/encrypt.py, ALPHABET.
ALPHABET ==
    StrTable(<<65, 66, 67, 68, 69, 70, 71, 72, 73, 74, 75, 76, 77, 78, 79, 80, 81,
               82, 83, 84, 85, 86, 87, 88, 89, 90, 97, 98, 99, 100, 101, 102, 103,
               104, 105, 106, 107, 108, 109, 110, 111, 112, 113, 114, 115, 116, 117,
               118, 119, 120, 121, 122, 49, 50, 51, 52, 53, 54, 55, 56, 57, 48, 32,
               33, 63, 46, 10, 13, 9, 41, 93, 125, 123, 91, 40, 43, 45, 42, 47, 61,
               60, 62, 64, 35, 36, 37, 94, 38, 124, 126, 96, 92, 34, 39, 59, 58, 44,
               95>>)

\* break.py, FREQUENCIES["en"]: the letters 'a' .. 'z' in the order of the dict.
FREQUENCIES == [a \in 1 .. 26 |-> 96 + a]

\* str.lower() on ASCII text.
lower(q) == [a \in DOMAIN q |-> IF q[a] \in ascii_uppercase THEN q[a] + 32 ELSE q[a]]

\* str.strip(chars)
strip(q, chars) ==
    LET keep == {a \in DOMAIN q : q[a] \notin chars}
    IN  IF keep = {} THEN <<>>
        ELSE SubSeq(q, CHOOSE a \in keep : \A b \in keep : a <= b,
                       CHOOSE a \in keep : \A b \in keep : a >= b)

\* 2 ** e % q
RECURSIVE Pow2Mod(_, _)
Pow2Mod(e, q) == IF e = 0 THEN 1 % q ELSE (2 * Pow2Mod(e - 1, q)) % q

\* p / q on ints 0 <= p <= q, q >= 1: the double nearest to the quotient,
\* kept as [p, q, s, x] for the value p / q + s / (q * 2 ** (53 + x)).
\* With 2 ** 52 <= (p / q) * 2 ** e < 2 ** 53 the double is m / 2 ** e for
\* the integer m nearest to p * 2 ** e / q; r is the remainder of that
\* division.  A tie (2 * r = q) needs q >= 2 ** 53.
truediv(p, q) ==
    IF p = 0 \/ p = q THEN [p |-> p, q |-> q, s |-> 0, x |-> 0]
    ELSE LET j == CHOOSE k \in 1 .. q : p * (2 ^ k) >= q /\ p * (2 ^ (k - 1)) < q
             r == (p * Pow2Mod(52 + j, q)) % q
         IN  [p |-> p, q |-> q, s |-> IF 2 * r < q THEN -r ELSE q - r, x |-> j - 1]

\* calculate_text_frequencies dividing by the number of symbols of the text
\* that are in the table.
calculate_text_frequencies_m(txt) ==
    LET inside == Cardinality({b \in DOMAIN txt : txt[b] \in Range(FREQUENCIES)})
    IN  IF inside = 0 THEN Raise("ZeroDivisionError")
        ELSE Ok([a \in DOMAIN FREQUENCIES |->
                LET hits == Positions(txt, FREQUENCIES[a])
                    indices == [b \in 1 .. Cardinality(hits) |->
                                   (CHOOSE p \in hits :
                                        Cardinality({x \in hits : x < p}) = b - 1) - 1]
                IN  [letter |-> FREQUENCIES[a], indices |-> indices,
                     frequency |-> truediv(Len(indices), inside)]])

\* break.py, calculate_text_frequencies: for every letter of the table the
\* indices of its occurrences and the frequency len(indices) / len(text).
calculate_text_frequencies(txt) ==
    IF Len(txt) = 0 THEN Raise("ZeroDivisionError")
    ELSE Ok([a \in DOMAIN FREQUENCIES |->
                LET hits == Positions(txt, FREQUENCIES[a])
                    indices == [b \in 1 .. Cardinality(hits) |->
                                   (CHOOSE p \in hits :
                                        Cardinality({x \in hits : x < p}) = b - 1) - 1]
                IN  [letter |-> FREQUENCIES[a], indices |-> indices,
                     frequency |-> truediv(Len(indices), Len(txt))]])

\* src/src/encrypt.py, vigenere_monogram_freq: {symbol: text.count(symbol) /
\* len(text) for symbol in alphabet}.
vigenere_monogram_freq(txt, alphabet) ==
    IF alphabet.syms # <<>> /\ Len(txt) = 0 THEN Raise("ZeroDivisionError")
    ELSE Ok([c \in Range(alphabet.syms) |->
                truediv(Cardinality(Positions(txt, c)), Len(txt))])

\* sorted(frequencies.items(), key=frequency, reverse=True): descending and
\* stable.  All frequencies have the denominator len(text), and the nearest
\* doubles of two quotients are in the order of their numerators.
RECURSIVE sorted_frequencies(_)
sorted_frequencies(items) ==
    IF items = <<>> THEN <<>>
    ELSE LET rest == sorted_frequencies(Front(items))
             x == items[Len(items)]
             k == Cardinality({a \in DOMAIN rest : rest[a].frequency.p >= x.frequency.p})
         IN  SubSeq(rest, 1, k) \o <<x>> \o SubSeq(rest, k + 1, Len(rest))

\* break.py, guess_key: ord(letter) - ord("e") for the top letters.
guess_key(txt, top) ==
    LET f == calculate_text_frequencies(txt)
    IN  IF f.err # "none" THEN f
        ELSE LET s == sorted_frequencies(f.v)
                 top_letters == SubSeq(s, 1, IF top < Len(s) THEN top ELSE Len(s))
             IN  Ok([a \in DOMAIN top_letters |-> top_letters[a].letter - 101])

\* break.py, guess_key_text: the tokens of the decrypted text that are words.
guess_key_text(txt, dictionary, k) ==
    LET g == caesar_decrypt_sequence_v1(PyInt(k), ALPHABET)
        decrypted == [a \in DOMAIN txt |-> GenNext_v1(g.v, txt[a], ALPHABET).v]
        tokens == split(decrypted, SPACE)
    IN  <<Cardinality({a \in DOMAIN tokens :
                          strip(lower(tokens[a]), {46, 32, 33, 63, 44}) \in dictionary}),
          k>>

\* -------------------------------------------------------- Vigenere breaker
\* src/src/encrypt.py.  A quotient of two ints is a double; it is kept as the
\* pair <<p, q>> of the ints divided and stands for the double nearest to
\* p / q.  Sums and comparisons of quotients are taken on the fractions: on
\* the fractions that occur, with denominators of a few digits, two different
\* values are farther apart than the rounding of the doubles, and the
\* fraction 8 / 5 itself is rounded to the double the literal 1.6 denotes.
QuotAdd(a, b) == <<a[1] * b[2] + b[1] * a[2], a[2] * b[2]>>

\* a > b for quotients with non-zero denominators of either sign.
QuotGreater(a, b) ==
    IF a[2] * b[2] > 0 THEN a[1] * b[2] > b[1] * a[2] ELSE a[1] * b[2] < b[1] * a[2]

\* counts[alphabet.index(char)] += 1 for char in text: the occurrences of
\* the symbol at index a, credited to its first index in the alphabet.
CountAt(txt, alphabet, a) ==
    IF Index(alphabet, alphabet.syms[a]) = a - 1
    THEN Cardinality(Positions(txt, alphabet.syms[a]))
    ELSE 0

\* index_of_coincidence dividing by total * total.
index_of_coincidence_m(txt, alphabet) ==
    IF \E a \in DOMAIN txt : ~InTable(txt[a], alphabet) THEN Raise("ValueError")
    ELSE LET counts == [a \in DOMAIN alphabet.syms |-> CountAt(txt, alphabet, a)]
             numer == SumSeq([a \in DOMAIN counts |-> counts[a] * (counts[a] - 1)])
             total == SumSeq(counts)
         IN  IF total * total = 0 THEN Raise("ZeroDivisionError")
             ELSE Ok(<<TLen(alphabet) * numer, total * total>>)

\* index_of_coincidence: len(alphabet) * numer / (total * (total - 1));
\* alphabet.index raises ValueError for a symbol that is not in the alphabet.
index_of_coincidence(txt, alphabet) ==
    IF \E a \in DOMAIN txt : ~InTable(txt[a], alphabet) THEN Raise("ValueError")
    ELSE LET counts == [a \in DOMAIN alphabet.syms |-> CountAt(txt, alphabet, a)]
             numer == SumSeq([a \in DOMAIN counts |-> counts[a] * (counts[a] - 1)])
             total == SumSeq(counts)
         IN  IF total * (total - 1) = 0 THEN Raise("ZeroDivisionError")
             ELSE Ok(<<TLen(alphabet) * numer, total * (total - 1)>>)

\* slices[i % period] += text[i]: slice k (from 0) of the text.
Slice(txt, p, k) ==
    LET m == Cardinality({a \in DOMAIN txt : (a - 1) % p = k})
    IN  [b \in 1 .. m |-> txt[k + 1 + (b - 1) * p]]

\* sum += index_of_coincidence(slices[i], alphabet) for the slices k .. p - 1,
\* added to the sum so far; the first exception ends the loop.
RECURSIVE SumIoc(_, _, _, _, _)
SumIoc(txt, alphabet, p, k, sum) ==
    IF k = p THEN Ok(sum)
    ELSE LET ic == index_of_coincidence(Slice(txt, p, k), alphabet)
         IN  IF ic.err # "none" THEN ic
             ELSE SumIoc(txt, alphabet, p, k + 1, QuotAdd(sum, ic.v))

\* ioc = sum / period for one trial period.
MeanIoc(txt, alphabet, p) ==
    LET s == SumIoc(txt, alphabet, p, 0, <<0, 1>>)
    IN  IF s.err # "none" THEN s ELSE Ok(<<s.v[1], s.v[2] * p>>)

\* The literal 1.6 of find_period.
Threshold == <<8, 5>>

\* The test of find_period with >= in place of >.
Exceeds_m(ioc) == ~QuotGreater(Threshold, ioc)

\* ioc > 1.6
Exceeds(ioc) == QuotGreater(ioc, Threshold)

\* find_period from the trial period after p on.
RECURSIVE find_period_from(_, _, _)
find_period_from(txt, alphabet, p) ==
    LET ioc == MeanIoc(txt, alphabet, p + 1)
    IN  IF ioc.err # "none" THEN ioc
        ELSE IF Exceeds(ioc.v) THEN Ok(p + 1)
        ELSE find_period_from(txt, alphabet, p + 1)

find_period(txt, alphabet) == find_period_from(txt, alphabet, 0)

\* len(alphabet) ** 4
TetragramCount(alphabet) == TLen(alphabet) * TLen(alphabet) * TLen(alphabet) * TLen(alphabet)

\* The index x of the tetragram starting at position a (from 1).
TetragramIndex(txt, alphabet, a) ==
    Index(alphabet, txt[a]) * TLen(alphabet) * TLen(alphabet) * TLen(alphabet)
        + Index(alphabet, txt[a + 1]) * TLen(alphabet) * TLen(alphabet)
        + Index(alphabet, txt[a + 2]) * TLen(alphabet)
        + Index(alphabet, txt[a + 3])

\* The list tetrafrequencies when vigenere_tetragram_freq has run through:
\* for every index the windows counted, divided by len(text) - 3.
tetrafrequencies(txt, alphabet) ==
    [x \in 1 .. TetragramCount(alphabet) |->
        <<Cardinality({a \in 1 .. (Len(txt) - 3) : TetragramIndex(txt, alphabet, a) = x - 1}),
          Len(txt) - 3>>]

\* vigenere_tetragram_freq: alphabet.index raises ValueError in the first
\* loop, the division raises ZeroDivisionError for a text of 3 symbols; the
\* function ends without a return statement, so the call yields None.
vigenere_tetragram_freq(txt, alphabet) ==
    IF Len(txt) >= 4 /\ \E a \in DOMAIN txt : ~InTable(txt[a], alphabet)
    THEN Raise("ValueError")
    ELSE IF Len(txt) = 3 /\ TetragramCount(alphabet) > 0 THEN Raise("ZeroDivisionError")
    ELSE Ok(PyNone)

\* vigenere_fitness: the table is what vigenere_tetragram_freq returned;
\* subscripting None raises TypeError at the first window.  Without a
\* window the result is 0 / (len(text) - 3).
vigenere_fitness(txt, alphabet) ==
    LET t == vigenere_tetragram_freq(txt, alphabet)
    IN  IF t.err # "none" THEN t
        ELSE IF Len(txt) >= 4
        THEN Raise("TypeError")
        ELSE IF Len(txt) = 3 THEN Raise("ZeroDivisionError")
        ELSE Ok(<<0, Len(txt) - 3>>)

\* "".join(key) for a list of one-character strs.
join(k) == PyStr([a \in DOMAIN k |-> k[a].s[1]])

\* vigenere_decrypt_str: "".join of vigenere_decrypt_sequence(text, key,
\* table); the first element that raises ends the join.
vigenere_decrypt_str(txt, k, alphabet) ==
    LET g == vigenere_decrypt_sequence(Len(txt), k, alphabet).v
        out == [a \in DOMAIN txt |-> GenNext([g EXCEPT !.i = a - 1], txt[a], alphabet)]
        bad == {a \in DOMAIN txt : out[a].err # "none"}
    IN  IF bad # {} THEN Raise(out[CHOOSE a \in bad : \A b \in bad : a <= b].err)
        ELSE Ok([a \in DOMAIN txt |-> out[a].v])

\* if (F > fit) taken also for F == fit.
Improves_m(F, held) == ~QuotGreater(held, F)

\* if (F > fit)
Improves(F, held) == QuotGreater(F, held)

\* ------------------------------------------------------------------- state
VARIABLES
    rev,        \* the revision called: "v1" src/encrypt.py, "v2" src/src/encrypt.py
    call,       \* "caesar", "vigenere", "enigma": decrypt(encrypt(T));
                \* "vigenere_shift": one call
    table,      \* the alphabet
    key,        \* the key, a Python value
    reverse,    \* vigenere_shift_sequence's reverse argument
    assert_len, \* vigenere_shift_sequence's assert_len argument
    n,          \* len(text)
    pc,         \* "init", "first", "run", "done", "raised"
    g1,         \* the generator reading the text
    g2,         \* the generator reading g1 (decrypt), or NoGen
    i,          \* symbols of the text consumed so far
    sym,        \* <<text[i-1]>>, or <<>> before the first symbol
    enc,        \* <<what g1 yielded for it>>, or <<>>
    dec,        \* <<what g2 yielded for it>>, or <<>>
    nout,       \* symbols the outermost generator has yielded
    passed,     \* whether a symbol consumed before the last one was outside the table
    err,        \* "none", or the exception that ended the run
    res,        \* the outcome of a direct call of hash_sequence or invert_table
    run,        \* encrypt_file.py, Enigma: the call in progress, "encrypt" or
                \* "decrypt" (option -d)
    plain,      \* encrypt_file.py: the bytes of the original file
    infile,     \* encrypt_file.py: the bytes of the input file of this run
    outfile,    \* encrypt_file.py: the bytes produced so far in this run
    rotors,     \* Enigma: the rotors the caller passes
    offsets,    \* Enigma: the offsets the caller passes
    text,       \* Enigma: the plaintext
    cipher,     \* Enigma: the tuple enigma_encrypt_sequence returned
    back,       \* Enigma: the tuple enigma_decrypt_sequence returned
    ctx,        \* Enigma: the rotor objects of the running traversal
    trav,       \* Enigma: traversals started (their rotor objects are <<trav, k>>)
    cache,      \* Enigma: the entries of the cache of enigma_apply_recursive
    lang,       \* breaker: the language argument
    words,      \* breaker: the words of the language's dictionary
    freqs,      \* breaker: word_len of the language's freqs.json, as <<p, q>> for p / q
    min_shift,  \* caesar_guess_shift's min_shift argument
    max_shift,  \* caesar_guess_shift's max_shift argument
    top,        \* guess_text's top argument
    shifts,     \* breaker: the candidates the shift generator has not reached yet
    keys,       \* breaker: the shifts drawn from the generator by list(...)
    running,    \* breaker: the candidates a worker is scoring
    guesses,    \* breaker: the results of the candidates scored
    period,     \* find_period / vigenere_break_vari: the period on trial or found
    fit,        \* vigenere_break_vari: the fitness of the key held
    chosen,     \* vigenere_break_vari: x, the key position drawn by random.randrange
    K,          \* vigenere_break_vari: the trial key
    ioc         \* find_period: the outcome of sum / period in the last pass

vars == <<rev, call, table, key, reverse, assert_len, n, pc, g1, g2, i,
          sym, enc, dec, nout, passed, err, res, run, plain, infile, outfile,
          rotors, offsets, text, cipher, back, ctx, trav, cache,
          lang, words, freqs, min_shift, max_shift, top, shifts, keys, running, guesses,
          period, fit, chosen, K, ioc>>

fileVars == <<run, plain, infile, outfile>>

enigmaVars == <<rotors, offsets, text, cipher, back, ctx, trav, cache>>

variVars == <<period, fit, chosen, K, ioc>>

breakVars == <<lang, words, freqs, min_shift, max_shift, top, shifts, keys, running, guesses,
               variVars>>

genVars == <<g1, g2, sym, enc, dec, nout, passed>>

inputs == <<rev, call, table, key, reverse, assert_len, n>>

\* ------------------------------------------------------------------ inputs
\* The characters texts, keys and alphabets are drawn from.
Chars == {0, 1, 2}

\* Every duplicate-free alphabet over the characters.
Alphabets == {q \in SeqsUpTo(Chars, 1, Cardinality(Chars)) : NoDup(q)}

Tables == {StrTable(q) : q \in Alphabets} \cup {ListTable(q) : q \in Alphabets}

IntKeys == {PyInt(k) : k \in (-MaxShift) .. MaxShift}

\* Elements of a list key: ints and one-character strs.
KeyElems == {PyInt(-1), PyInt(MaxShift), PyStr(<<2>>)}

VigenereKeys ==
    {PyStr(q) : q \in SeqsUpTo(Chars, 1, MaxKey)}
        \cup {PyList(q) : q \in SeqsUpTo(KeyElems, 1, MaxKey)}

\* The symbols a text over the table can hold.
TextSymbols(tb) == Chars

Roundtrip == call \in {"caesar", "vigenere"}

NoResult == [err |-> "pending", v |-> 0]

\* ioc before the first pass of find_period.
NoQuotient == [err |-> "pending", v |-> <<0, 1>>]

\* No Enigma call has been made.
EnigmaIdle ==
    /\ rotors = <<>> /\ offsets = <<>>
    /\ text = <<>> /\ cipher = <<>> /\ back = <<>>
    /\ ctx = <<>> /\ trav = 0 /\ cache = {}

\* No breaker call has been made.
BreakIdle ==
    /\ lang = "en" /\ words = {} /\ freqs = <<1, 1>>
    /\ min_shift = 0 /\ max_shift = 0 /\ top = 0
    /\ shifts = <<>> /\ keys = <<>> /\ running = {} /\ guesses = {}
    /\ period = 0 /\ fit = 0 /\ chosen = 0 /\ K = <<>> /\ ioc = NoQuotient

Start ==
    /\ pc = "init"
    /\ g1 = NoGen /\ g2 = NoGen
    /\ i = 0 /\ nout = 0
    /\ sym = <<>> /\ enc = <<>> /\ dec = <<>>
    /\ passed = FALSE
    /\ err = "none"
    /\ res = NoResult
    /\ run = "none" /\ plain = <<>> /\ infile = <<>> /\ outfile = <<>>
    /\ EnigmaIdle
    /\ BreakIdle

Init ==
    /\ rev \in {"v1", "v2"}
    /\ table \in Tables
    /\ n \in 0 .. MaxText
    /\ call \in {"caesar", "vigenere", "vigenere_shift"}
    /\ key \in (IF call = "caesar" THEN IntKeys ELSE VigenereKeys)
    /\ reverse \in (IF call = "vigenere_shift" THEN BOOLEAN ELSE {FALSE})
    /\ assert_len = (call = "vigenere_shift")
    /\ Start

\* ----------------------------------------------------------------- actions
\* The call that builds the generator reading the text.
FirstCall ==
    IF call = "caesar"
    THEN IF rev = "v1" THEN caesar_encrypt_sequence_v1(key, table)
         ELSE caesar_encrypt_sequence(key, table)
    ELSE IF call = "vigenere"
    THEN IF rev = "v1" THEN vigenere_encrypt_sequence_v1(n, key, table)
         ELSE vigenere_encrypt_sequence(n, key, table)
    ELSE IF rev = "v1"
         THEN vigenere_shift_sequence_v1(n, key, reverse, table, assert_len)
         ELSE vigenere_shift_sequence(n, key, reverse, table, assert_len)

\* The decrypt call on the first generator.
SecondCall ==
    IF call = "caesar"
    THEN IF rev = "v1" THEN caesar_decrypt_sequence_v1(key, table)
         ELSE caesar_decrypt_sequence(key, table)
    ELSE IF rev = "v1" THEN vigenere_decrypt_sequence_v1(n, key, table)
         ELSE vigenere_decrypt_sequence(n, key, table)

Yield(g, s) == IF rev = "v1" THEN GenNext_v1(g, s, table) ELSE GenNext(g, s, table)

CallFirst ==
    /\ pc = "init"
    /\ LET r == FirstCall
       IN  /\ err' = r.err
           /\ g1' = IF r.err = "none" THEN r.v ELSE NoGen
           /\ pc' = IF r.err # "none" THEN "raised"
                    ELSE IF Roundtrip THEN "first" ELSE "run"
    /\ UNCHANGED <<inputs, g2, i, sym, enc, dec, nout, passed, res, fileVars, enigmaVars, breakVars>>

CallSecond ==
    /\ pc = "first"
    /\ LET r == SecondCall
       IN  /\ err' = r.err
           /\ g2' = IF r.err = "none" THEN r.v ELSE NoGen
           /\ pc' = IF r.err # "none" THEN "raised" ELSE "run"
    /\ UNCHANGED <<inputs, g1, i, sym, enc, dec, nout, passed, res, fileVars, enigmaVars, breakVars>>

\* The consumer asks for the next element: the text yields s, g1 shifts it
\* and, in a round trip, g2 shifts what g1 yielded.
NextSymbol ==
    /\ pc = "run"
    /\ i < n
    /\ \E s \in TextSymbols(table) :
        LET e == Yield(g1, s)
            d == IF e.err = "none" /\ Roundtrip THEN Yield(g2, e.v) ELSE e
        IN  /\ sym' = <<s>>
            /\ i' = i + 1
            /\ g1' = Advance(g1)
            /\ enc' = IF e.err = "none" THEN <<e.v>> ELSE <<>>
            /\ g2' = IF e.err = "none" /\ Roundtrip THEN Advance(g2) ELSE g2
            /\ dec' = IF d.err = "none" /\ Roundtrip THEN <<d.v>> ELSE <<>>
            /\ err' = d.err
            /\ nout' = IF d.err = "none" THEN nout + 1 ELSE nout
            /\ pc' = IF d.err = "none" THEN "run" ELSE "raised"
            /\ passed' = (passed \/ (sym # <<>> /\ ~InTable(sym[1], table)))
    /\ UNCHANGED <<inputs, res, fileVars, enigmaVars, breakVars>>

\* The text is exhausted: the generators stop.
Exhaust ==
    /\ pc = "run"
    /\ i = n
    /\ pc' = "done"
    /\ UNCHANGED <<inputs, g1, g2, i, sym, enc, dec, nout, passed, err, res, fileVars, enigmaVars, breakVars>>

Next == CallFirst \/ CallSecond \/ NextSymbol \/ Exhaust

Spec == Init /\ [][Next]_vars

\* ------------------------------------------- direct calls of the key helpers
\* Any alphabet a caller can pass, duplicates included.
AnyTables ==
    LET qs == SeqsUpTo(Chars, 1, Cardinality(Chars))
    IN  {StrTable(q) : q \in qs} \cup {ListTable(q) : q \in qs}

\* A key given as a sequence of symbols: a passphrase, or a list of characters.
SymbolKeys ==
    {PyStr(q) : q \in SeqsUpTo(Chars, 1, MaxKey)}
        \cup {PyList([a \in DOMAIN q |-> PyStr(<<q[a]>>)]) : q \in SeqsUpTo(Chars, 1, MaxKey)}

InitKey ==
    /\ rev \in {"v1", "v2"}
    /\ call \in {"hash", "invert"}
    /\ table \in (IF call = "hash" THEN Tables ELSE AnyTables)
    /\ key \in (IF call = "hash" THEN SymbolKeys ELSE {PyNone})
    /\ reverse = FALSE /\ assert_len = FALSE /\ n = 0
    /\ Start

\* hash_sequence(key, table)
CallHash ==
    /\ pc = "init" /\ call = "hash"
    /\ res' = IF rev = "v1" THEN hash_sequence_v1(key, table)
              ELSE hash_sequence(key, table)
    /\ pc' = "done"
    /\ UNCHANGED <<inputs, g1, g2, i, sym, enc, dec, nout, passed, err, fileVars, enigmaVars, breakVars>>

\* invert_table(table); the function is the same in both revisions.
CallInvert ==
    /\ pc = "init" /\ call = "invert"
    /\ res' = Ok(invert_table(table))
    /\ pc' = "done"
    /\ UNCHANGED <<inputs, g1, g2, i, sym, enc, dec, nout, passed, err, fileVars, enigmaVars, breakVars>>

NextKey == CallHash \/ CallInvert

SpecKey == InitKey /\ [][NextKey]_vars

\* ----------------------------------------------------------- encrypt_file.py
\* len(BYTE_ALPHABET)
ByteCount == 256

\* Longest file.
MaxFile == 2

\* BYTE_ALPHABET = [n for n in range(256)]
BYTE_ALPHABET == IntTable([a \in 1 .. ByteCount |-> a - 1])

\* Byte values files are made of, and character codes of passphrases (one of
\* them above 255).
SampleBytes == {0, 1, ByteCount - 1}
SampleCodes == {97, ByteCount - 1, ByteCount + 44}

\* KEY = [ord(char) for char in ARGS.key]
KEY(codes) == PyList([a \in DOMAIN codes |-> PyInt(codes[a])])

InitFile ==
    /\ rev \in {"v1", "v2"}
    /\ call \in {"caesar", "vigenere"}
    /\ table = BYTE_ALPHABET
    /\ key \in {KEY(q) : q \in SeqsUpTo(SampleCodes, 1, MaxKey)}
    /\ reverse = FALSE /\ assert_len = FALSE
    /\ plain \in SeqsUpTo(SampleBytes, 0, MaxFile)
    /\ n = Len(plain)
    /\ infile = plain
    /\ outfile = <<>>
    /\ run = "encrypt"
    /\ pc = "init"
    /\ g1 = NoGen /\ g2 = NoGen
    /\ i = 0 /\ nout = 0
    /\ sym = <<>> /\ enc = <<>> /\ dec = <<>>
    /\ passed = FALSE
    /\ err = "none"
    /\ res = NoResult
    /\ EnigmaIdle
    /\ BreakIdle

\* FUNC: the function __main__ selects, called by apply_byte_stream.
FUNC ==
    IF call = "caesar"
    THEN IF run = "decrypt"
         THEN IF rev = "v1" THEN caesar_decrypt_sequence_v1(key, table)
              ELSE caesar_decrypt_sequence(key, table)
         ELSE IF rev = "v1" THEN caesar_encrypt_sequence_v1(key, table)
              ELSE caesar_encrypt_sequence(key, table)
    ELSE IF run = "decrypt"
         THEN IF rev = "v1" THEN vigenere_decrypt_sequence_v1(Len(infile), key, table)
              ELSE vigenere_decrypt_sequence(Len(infile), key, table)
         ELSE IF rev = "v1" THEN vigenere_encrypt_sequence_v1(Len(infile), key, table)
              ELSE vigenere_encrypt_sequence(Len(infile), key, table)

\* apply_byte_stream: func(byte stream, key, BYTE_ALPHABET)
apply_byte_stream ==
    /\ pc = "init"
    /\ LET r == FUNC
       IN  /\ err' = r.err
           /\ g1' = IF r.err = "none" THEN r.v ELSE NoGen
           /\ pc' = IF r.err = "none" THEN "run" ELSE "raised"
    /\ UNCHANGED <<inputs, g2, i, sym, enc, dec, nout, passed, res, fileVars, enigmaVars, breakVars>>

\* bytes(...) draws the next element; a value outside 0..255 is a ValueError.
NextByte ==
    /\ pc = "run"
    /\ i < Len(infile)
    /\ LET r == Yield(g1, infile[i + 1])
           bad == r.err = "none" /\ r.v \notin 0 .. (ByteCount - 1)
       IN  /\ err' = IF bad THEN "ValueError" ELSE r.err
           /\ pc' = IF r.err = "none" /\ ~bad THEN "run" ELSE "raised"
           /\ outfile' = IF r.err = "none" /\ ~bad THEN Append(outfile, r.v) ELSE outfile
    /\ i' = i + 1
    /\ g1' = Advance(g1)
    /\ UNCHANGED <<inputs, g2, sym, enc, dec, nout, passed, res, run, plain, infile, enigmaVars, breakVars>>

\* output_file.write: the run ends; the encrypted file is then decrypted by a
\* second run with -d and the same key.
apply_file ==
    /\ pc = "run"
    /\ i = Len(infile)
    /\ IF run = "encrypt"
       THEN /\ run' = "decrypt"
            /\ infile' = outfile
            /\ outfile' = <<>>
            /\ i' = 0
            /\ g1' = NoGen
            /\ pc' = "init"
       ELSE /\ pc' = "done"
            /\ UNCHANGED <<run, infile, outfile, i, g1>>
    /\ UNCHANGED <<inputs, g2, sym, enc, dec, nout, passed, err, res, plain, enigmaVars, breakVars>>

NextFile == apply_byte_stream \/ NextByte \/ apply_file

SpecFile == InitFile /\ [][NextFile]_vars

\* ------------------------------------------------------------ Enigma engine
\* Longest text and largest offset of the Enigma runs.
MaxEnigmaText == 2
MaxOffset == 2

RotorAlphabets == {<<0, 1>>, <<0, 1, 2>>}

\* Every permutation of an alphabet, as a mapping list.
MappingLists(A) == {p \in [1 .. Len(A) -> Range(A)] : Range(p) = Range(A)}

\* The position the caller's rotor object is in before the call: its last.
CallerPosition(A) == Len(A) - 1

Rotors ==
    UNION {{EnigmaRotor(A, CallerPosition(A), m) : m \in MappingLists(A)} :
              A \in RotorAlphabets}

\* Stacks of no, one and two rotors.
Stacks == {<<>>} \cup {<<r>> : r \in Rotors} \cup {<<r, q>> : r \in Rotors, q \in Rotors}

\* Offsets: a negative one, zero, and one that reaches the length of an
\* alphabet.
Offsets == {-1, 0, MaxOffset}

\* A run is enigma_decrypt_sequence(enigma_encrypt_sequence(text, ...), ...)
\* (run = "encrypt" first) or one call enigma_decrypt_sequence(text, ...).
InitEnigma ==
    /\ rev = "v2" /\ call = "enigma"
    /\ table = IntTable(<<0>>) /\ key = PyNone
    /\ reverse = FALSE /\ assert_len = FALSE
    /\ rotors \in Stacks
    /\ offsets \in SeqsUpTo(Offsets, 0, 2)
    /\ text \in SeqsUpTo(Chars, 0, MaxEnigmaText)
    /\ n = Len(text)
    /\ run \in {"encrypt", "decrypt"}
    /\ cipher = IF run = "decrypt" THEN text ELSE <<>>
    /\ back = <<>>
    /\ ctx = <<>> /\ trav = 0 /\ cache = {}
    /\ pc = "init"
    /\ g1 = NoGen /\ g2 = NoGen
    /\ i = 0 /\ nout = 0
    /\ sym = <<>> /\ enc = <<>> /\ dec = <<>>
    /\ passed = FALSE
    /\ err = "none"
    /\ res = NoResult
    /\ plain = <<>> /\ infile = <<>> /\ outfile = <<>>
    /\ BreakIdle

\* The text the call in progress reads.
EnigmaInput == IF run = "encrypt" THEN text ELSE cipher

\* enigma_apply_sequence up to the generator it builds: the lengths are
\* compared, then the context makes the rotor objects of the traversal.  The
\* function's own cache is keyed by the whole call; the two calls of a round
\* trip differ in the inverted keyword, so neither finds an entry there.
enigma_apply_sequence_m ==
    /\ ctx' = EnigmaContext_rotors(rotors, offsets)
    /\ trav' = trav + 1
    /\ i' = 0
    /\ pc' = "run"
    /\ UNCHANGED <<inputs, g1, g2, sym, enc, dec, nout, passed, err, res, fileVars,
                   rotors, offsets, text, cipher, back, cache, breakVars>>

enigma_apply_sequence ==
    /\ IF Len(rotors) # Len(offsets)
       THEN /\ err' = "ValueError"
            /\ pc' = "raised"
            /\ UNCHANGED <<ctx, trav, i>>
       ELSE /\ ctx' = EnigmaContext_rotors(rotors, offsets)
            /\ trav' = trav + 1
            /\ i' = 0
            /\ pc' = "run"
            /\ UNCHANGED err
    /\ UNCHANGED <<inputs, g1, g2, sym, enc, dec, nout, passed, res, fileVars,
                   rotors, offsets, text, cipher, back, cache, breakVars>>

\* enigma_encrypt_sequence(text, rotors, offsets)
enigma_encrypt_sequence ==
    /\ pc = "init" /\ run = "encrypt"
    /\ enigma_apply_sequence

\* enigma_decrypt_sequence(cipher, rotors, offsets)
enigma_decrypt_sequence ==
    /\ pc = "init" /\ run = "decrypt"
    /\ enigma_apply_sequence

\* The caller's rotors after the rotor objects of traversal t were stepped:
\* __next__ assigns the position of the object it is called on.
Stepped(rs, t, stepped) ==
    [k \in DOMAIN rs |->
        IF k \in DOMAIN stepped /\ RotorObject(t, k) = <<0, k>> THEN stepped[k] ELSE rs[k]]

\* One element of the generator: zip draws the next symbol and steps every
\* rotor of the context, then enigma_apply_recursive is called with the
\* rotor objects and inverted passed by keyword.
EnigmaContext_iter ==
    /\ pc = "run"
    /\ i < Len(EnigmaInput)
    /\ LET inverted == run = "decrypt"
           stepped == [k \in DOMAIN ctx |-> EnigmaRotor_next(ctx[k])]
           r == enigma_apply_recursive(
                    EnigmaInput[i + 1], stepped, trav,
                    [k \in DOMAIN ctx |-> k], inverted,
                    IF inverted THEN "inverted=True" ELSE "inverted=False",
                    cache)
       IN  /\ ctx' = stepped
           /\ rotors' = Stepped(rotors, trav, stepped)
           /\ cache' = r.cache
           /\ cipher' = IF inverted THEN cipher ELSE Append(cipher, r.v)
           /\ back' = IF inverted THEN Append(back, r.v) ELSE back
    /\ i' = i + 1
    /\ UNCHANGED <<inputs, pc, g1, g2, sym, enc, dec, nout, passed, err, res, fileVars,
                   offsets, text, trav, breakVars>>

\* degenify: the text is exhausted and the tuple is returned; after
\* enigma_encrypt_sequence the caller passes it to enigma_decrypt_sequence.
degenify ==
    /\ pc = "run"
    /\ i = Len(EnigmaInput)
    /\ pc' = IF run = "encrypt" THEN "init" ELSE "done"
    /\ run' = "decrypt"
    /\ UNCHANGED <<inputs, g1, g2, i, sym, enc, dec, nout, passed, err, res,
                   plain, infile, outfile, enigmaVars, breakVars>>

NextEnigma ==
    enigma_encrypt_sequence \/ enigma_decrypt_sequence \/ EnigmaContext_iter \/ degenify

SpecEnigma == InitEnigma /\ [][NextEnigma]_vars

\* ---------------------------------------------------------- breaker engine
\* The longest ciphertext handed to the breaker.
MaxBreakText == 3
\* The calls of next() made on the shift generator after it is exhausted.
MaxNext == 2

\* ' ', 'a', 'b'
BreakChars == {SPACE, 97, 98}

BreakTexts == SeqsUpTo(BreakChars, 0, MaxBreakText)

\* The alphabets: strings without a repeated character.
BreakAlphabets == {StrTable(q) : q \in {s \in SeqsUpTo(BreakChars, 1, 3) : NoDup(s)}}

\* (min_shift, max_shift); (0, 26) are the defaults.
ShiftRanges == {<<0, 26>>, <<1, 1>>, <<1, 2>>, <<2, 0>>}

\* word_len of dicts/<lang>/freqs.json: 1 and 1.5.
WordLens == {<<1, 1>>, <<3, 2>>}

\* break_lib.py, langs.
langs == {"en"}

\* What no breaker action changes.
breakFixed ==
    <<rev, call, table, key, reverse, assert_len, n, genVars, run, plain, infile,
      outfile, rotors, offsets, text, cipher, back, ctx, trav, cache,
      lang, freqs, min_shift, max_shift, top, variVars>>

InitGuessShift ==
    /\ rev = "v2"
    /\ call = "caesar_guess_shift"
    /\ text \in BreakTexts
    /\ table \in BreakAlphabets
    /\ lang = "en"
    /\ freqs \in WordLens
    /\ \E r \in ShiftRanges : min_shift = r[1] /\ max_shift = r[2]
    /\ words = {} /\ top = 0
    /\ shifts = <<>> /\ keys = <<>> /\ running = {} /\ guesses = {}

\* The words of dicts/<lang>/words.json.
Dictionaries == {{}, {<<97>>}, {<<97>>, <<98, 98>>}}

InitCaesarBreak ==
    /\ rev = "v2"
    /\ call = "caesar_break"
    /\ text \in BreakTexts
    /\ table \in BreakAlphabets \cup {NoAlphabet}
    /\ lang \in {"en", "de"}
    /\ freqs \in WordLens
    /\ words \in Dictionaries
    /\ min_shift = 0 /\ max_shift = 26
    /\ top = 0
    /\ shifts = <<>> /\ keys = <<>> /\ running = {} /\ guesses = {}

\* "the quick brown fox"
QuickBrownFox ==
    <<116, 104, 101, 32, 113, 117, 105, 99, 107, 32, 98, 114, 111, 119, 110, 32,
      102, 111, 120>>

\* The lowercase letters followed by the space.
LowercaseSpace == StrTable([a \in 1 .. 27 |-> IF a = 27 THEN SPACE ELSE 96 + a])

\* caesar_break on "the quick brown fox" encrypted with key 5, with the word
\* list the, quick, brown, fox and the word_len 4.7 of English.
InitExample ==
    /\ rev = "v2"
    /\ call = "caesar_break"
    /\ text = [a \in DOMAIN QuickBrownFox |->
                  GenNext(caesar_encrypt_sequence(PyInt(5), LowercaseSpace).v,
                          QuickBrownFox[a], LowercaseSpace).v]
    /\ table = LowercaseSpace
    /\ lang = "en"
    /\ freqs = <<47, 10>>
    /\ words = {<<116, 104, 101>>, <<113, 117, 105, 99, 107>>,
                <<98, 114, 111, 119, 110>>, <<102, 111, 120>>}
    /\ min_shift = 0 /\ max_shift = 26
    /\ top = 0
    /\ shifts = <<>> /\ keys = <<>> /\ running = {} /\ guesses = {}

\* The greatest top argument of guess_text.
MaxTop == 2

\* ' ', '!', '.', 'E', 'e', 'f': symbols of ALPHABET.
GuessChars == {SPACE, 33, 46, 69, 101, 102}

\* The words get_words returns, lowercased.
GuessDictionaries == {{}, {<<101>>}, {<<100>>, <<101>>, <<105>>, <<106>>}}

\* guess_text(text, "en", top) of break.py on a text that is not empty.
InitGuessText ==
    /\ rev = "v1"
    /\ call = "guess_text"
    /\ text \in SeqsUpTo(GuessChars, 1, MaxBreakText)
    /\ table = ALPHABET
    /\ lang = "en"
    /\ freqs = <<1, 1>>
    /\ words \in GuessDictionaries
    /\ min_shift = 0 /\ max_shift = 0
    /\ top \in 0 .. MaxTop
    /\ shifts = <<>> /\ keys = <<>> /\ running = {} /\ guesses = {}

\* caesar_break up to the call of the mapped function.
caesar_break ==
    /\ call = "caesar_break" /\ pc = "init"
    /\ IF lang \notin langs
       THEN /\ pc' = "raised" /\ err' = "ValueError"
            /\ UNCHANGED <<table, shifts>>
       ELSE LET alphabet == IF table = NoAlphabet
                            THEN StrTable(caesar_guess_alphabet(text))
                            ELSE table
                r == caesar_guess_shift_call(text, alphabet, freqs)
            IN  /\ table' = alphabet
                /\ IF r.err # "none"
                   THEN /\ pc' = "raised" /\ err' = r.err
                        /\ UNCHANGED shifts
                   ELSE /\ pc' = "run"
                        /\ shifts' = r.v
                        /\ UNCHANGED err
    /\ UNCHANGED <<rev, call, key, reverse, assert_len, n, genVars, run, plain,
                   infile, outfile, rotors, offsets, text, cipher, back, ctx, trav,
                   cache, lang, freqs, min_shift, max_shift, top, variVars,
                   i, res, words, keys, running, guesses>>

\* guess_text up to the call of the mapped function.
guess_text ==
    /\ call = "guess_text" /\ pc = "init"
    /\ LET r == guess_key(text, top)
       IN  IF r.err # "none"
           THEN /\ pc' = "raised" /\ err' = r.err
                /\ UNCHANGED shifts
           ELSE /\ pc' = "run"
                /\ shifts' = r.v
                /\ UNCHANGED err
    /\ UNCHANGED <<breakFixed, i, res, words, keys, running, guesses>>

\* @async_map(max_workers=...)
max_workers == IF call = "caesar_break" THEN 4 ELSE 10

\* @async_map(timeout=10) on guess_key_text; caesar_break passes no timeout.
HasTimeout == call = "guess_text"

\* next() on the generator of candidates handed to the mapped function.
NextCandidate ==
    IF call = "caesar_break" THEN NextInRange(shifts, min_shift, max_shift)
    ELSE IF shifts = <<>> THEN [stop |-> TRUE, v |-> 0, rest |-> <<>>]
    ELSE [stop |-> FALSE, v |-> Head(shifts), rest |-> Tail(shifts)]

\* The function async_map decorates, on one candidate.
Mapped(arg) ==
    IF call = "caesar_break" THEN guess_text_with_words(text, table, arg)
    ELSE guess_key_text(text, words, arg)

\* async_map: a free worker of the pool takes the next candidate.
async_map_submit ==
    /\ call \in {"caesar_break", "guess_text"} /\ pc = "run"
    /\ Cardinality(running) < max_workers
    /\ ~NextCandidate.stop
    /\ running' = running \cup {NextCandidate.v}
    /\ keys' = Append(keys, NextCandidate.v)
    /\ shifts' = NextCandidate.rest
    /\ UNCHANGED <<breakFixed, pc, i, err, res, words, guesses>>

\* async_map: a worker finishes its candidate; the result joins the set of
\* results.
async_map_complete ==
    /\ call \in {"caesar_break", "guess_text"} /\ pc = "run"
    /\ \E arg \in running :
        /\ running' = running \ {arg}
        /\ guesses' = guesses \cup {Mapped(arg)}
    /\ UNCHANGED <<breakFixed, pc, i, err, res, words, shifts, keys>>

\* async_map: the batch ends when every candidate is scored or, with a
\* timeout, when the time is up; the candidates not finished are abandoned.
async_map_join ==
    /\ call \in {"caesar_break", "guess_text"} /\ pc = "run"
    /\ IF HasTimeout THEN TRUE ELSE NextCandidate.stop /\ running = {}
    /\ pc' = "collected"
    /\ running' = {}
    /\ shifts' = <<>>
    /\ UNCHANGED <<breakFixed, i, err, res, words, keys, guesses>>

\* caesar_break: num_words.sort(key=operator.itemgetter(1), reverse=True);
\* return num_words[0].  The list is in the order of the set of results.
caesar_break_return ==
    /\ call = "caesar_break" /\ pc = "collected"
    /\ IF guesses = {}
       THEN pc' = "raised" /\ err' = "IndexError" /\ UNCHANGED res
       ELSE /\ \E g \in Best(guesses, 2) : res' = Ok(g)
            /\ pc' = "done"
            /\ UNCHANGED err
    /\ UNCHANGED <<breakFixed, i, words, shifts, keys, running, guesses>>

\* guess_text: sorted(guesses, key=item[0], reverse=True); best_guess =
\* sorted_guesses[0]; return best_guess, caesar_decrypt_str(text, best_guess[1]).
guess_text_return ==
    /\ call = "guess_text" /\ pc = "collected"
    /\ IF guesses = {}
       THEN pc' = "raised" /\ err' = "IndexError" /\ UNCHANGED res
       ELSE /\ \E g \in Best(guesses, 1) :
                res' = Ok(<<g, [a \in DOMAIN text |->
                                   GenNext_v1(caesar_decrypt_sequence_v1(PyInt(g[2]), ALPHABET).v,
                                              text[a], ALPHABET).v]>>)
            /\ pc' = "done"
            /\ UNCHANGED err
    /\ UNCHANGED <<breakFixed, i, words, shifts, keys, running, guesses>>

\* ' ', 'a', 'A', '1', '!', and the line feed, which is in none of the
\* string constants.
ClassChars == {SPACE, 97, 65, 49, 33, 10}

\* "abcxyz" and "ABCXYZ123"
ClassExamples == {<<97, 98, 99, 120, 121, 122>>, <<65, 66, 67, 88, 89, 90, 49, 50, 51>>}

\* caesar_guess_alphabet(text)
InitGuessAlphabet ==
    /\ rev = "v2"
    /\ call = "caesar_guess_alphabet"
    /\ text \in SeqsUpTo(ClassChars, 0, MaxBreakText) \cup ClassExamples
    /\ table = NoAlphabet
    /\ lang = "en" /\ freqs = <<1, 1>> /\ words = {}
    /\ min_shift = 0 /\ max_shift = 0 /\ top = 0
    /\ shifts = <<>> /\ keys = <<>> /\ running = {} /\ guesses = {}

caesar_guess_alphabet_call ==
    /\ call = "caesar_guess_alphabet" /\ pc = "init"
    /\ res' = Ok(caesar_guess_alphabet(text))
    /\ pc' = "done"
    /\ UNCHANGED <<breakFixed, i, err, words, shifts, keys, running, guesses>>

\* The longest text handed to the frequency functions.
MaxFreqText == 5

FreqTexts == SeqsUpTo(BreakChars, 0, MaxFreqText)

\* calculate_text_frequencies(text, "en") of break.py, and
\* vigenere_monogram_freq(text, alphabet) of src/src/encrypt.py.
InitFrequencies ==
    /\ rev \in {"v1", "v2"}
    /\ text \in FreqTexts
    /\ IF rev = "v1"
       THEN call = "calculate_text_frequencies" /\ table = ALPHABET
       ELSE call = "vigenere_monogram_freq" /\ table \in BreakAlphabets
    /\ lang = "en" /\ freqs = <<1, 1>> /\ words = {}
    /\ min_shift = 0 /\ max_shift = 0 /\ top = 0
    /\ shifts = <<>> /\ keys = <<>> /\ running = {} /\ guesses = {}

calculate_text_frequencies_call ==
    /\ call = "calculate_text_frequencies" /\ pc = "init"
    /\ LET r == calculate_text_frequencies(text)
       IN  IF r.err # "none"
           THEN pc' = "raised" /\ err' = r.err /\ UNCHANGED res
           ELSE pc' = "done" /\ res' = r /\ UNCHANGED err
    /\ UNCHANGED <<breakFixed, i, words, shifts, keys, running, guesses>>

vigenere_monogram_freq_call ==
    /\ call = "vigenere_monogram_freq" /\ pc = "init"
    /\ LET r == vigenere_monogram_freq(text, table)
       IN  IF r.err # "none"
           THEN pc' = "raised" /\ err' = r.err /\ UNCHANGED res
           ELSE pc' = "done" /\ res' = r /\ UNCHANGED err
    /\ UNCHANGED <<breakFixed, i, words, shifts, keys, running, guesses>>

\* The arguments of the call.
BreakCall ==
    \/ InitGuessShift
    \/ InitCaesarBreak
    \/ InitExample
    \/ InitGuessText
    \/ InitGuessAlphabet
    \/ InitFrequencies

InitBreak ==
    /\ key = PyNone /\ reverse = FALSE /\ assert_len = FALSE
    /\ n = 0 /\ pc = "init" /\ g1 = NoGen /\ g2 = NoGen /\ i = 0
    /\ sym = <<>> /\ enc = <<>> /\ dec = <<>> /\ nout = 0 /\ passed = FALSE
    /\ err = "none" /\ res = NoResult
    /\ run = "none" /\ plain = <<>> /\ infile = <<>> /\ outfile = <<>>
    /\ rotors = <<>> /\ offsets = <<>> /\ cipher = <<>> /\ back = <<>>
    /\ ctx = <<>> /\ trav = 0 /\ cache = {}
    /\ period = 0 /\ fit = 0 /\ chosen = 0 /\ K = <<>> /\ ioc = NoQuotient
    /\ BreakCall

\* shifts = caesar_guess_shift(text, lang, min_shift, max_shift, alphabet)
caesar_guess_shift ==
    /\ call = "caesar_guess_shift" /\ pc = "init"
    /\ LET r == caesar_guess_shift_call(text, table, freqs)
       IN  IF r.err # "none"
           THEN /\ pc' = "raised" /\ err' = r.err
                /\ UNCHANGED shifts
           ELSE /\ pc' = "run"
                /\ shifts' = r.v
                /\ UNCHANGED err
    /\ UNCHANGED <<breakFixed, i, res, words, keys, running, guesses>>

\* next(shifts): the caller of src/src/main.py draws the shifts one by one;
\* after StopIteration every further next() raises StopIteration again.
shifts_next ==
    /\ call = "caesar_guess_shift" /\ pc \in {"run", "done"}
    /\ LET r == NextInRange(shifts, min_shift, max_shift)
       IN  IF r.stop
           THEN /\ i < MaxNext
                /\ pc' = "done"
                /\ shifts' = <<>>
                /\ i' = IF pc = "done" THEN i + 1 ELSE i
                /\ UNCHANGED keys
           ELSE /\ pc' = pc
                /\ shifts' = r.rest
                /\ keys' = Append(keys, r.v)
                /\ UNCHANGED i
    /\ UNCHANGED <<breakFixed, err, res, words, running, guesses>>

NextBreak ==
    \/ caesar_guess_shift
    \/ shifts_next
    \/ caesar_break
    \/ guess_text
    \/ async_map_submit
    \/ async_map_complete
    \/ async_map_join
    \/ caesar_break_return
    \/ guess_text_return
    \/ caesar_guess_alphabet_call
    \/ calculate_text_frequencies_call
    \/ vigenere_monogram_freq_call

SpecBreak == InitBreak /\ [][NextBreak]_vars

\* ------------------------------------------------- Vigenere breaker engine
\* The longest text handed to the Vigenere breaker.
MaxVariText == 5

\* 'A', 'a', 'b'
VariChars == {65, 97, 98}

VariTexts == SeqsUpTo(VariChars, 0, MaxVariText)

\* "", "a", "ab", "Aab", "abcd" and ['a', 'b']
VariAlphabets ==
    {StrTable(<<>>), StrTable(<<97>>), StrTable(<<97, 98>>), StrTable(<<65, 97, 98>>),
     StrTable(<<97, 98, 99, 100>>), ListTable(<<97, 98>>)}

VariCalls ==
    {"index_of_coincidence", "find_period", "vigenere_tetragram_freq", "vigenere_fitness",
     "vigenere_break_vari"}

\* What no action of the Vigenere breaker changes.
variFixed ==
    <<rev, call, table, reverse, assert_len, n, genVars, fileVars, enigmaVars,
      lang, words, freqs, min_shift, max_shift, top, shifts, keys, running, guesses>>

InitVari ==
    /\ rev = "v2"
    /\ call \in VariCalls
    /\ text \in VariTexts
    /\ table \in VariAlphabets
    /\ key = PyNone /\ reverse = FALSE /\ assert_len = FALSE
    /\ n = Len(text) /\ pc = "init" /\ g1 = NoGen /\ g2 = NoGen /\ i = 0
    /\ sym = <<>> /\ enc = <<>> /\ dec = <<>> /\ nout = 0 /\ passed = FALSE
    /\ err = "none" /\ res = NoResult
    /\ run = "none" /\ plain = <<>> /\ infile = <<>> /\ outfile = <<>>
    /\ rotors = <<>> /\ offsets = <<>> /\ cipher = <<>> /\ back = <<>>
    /\ ctx = <<>> /\ trav = 0 /\ cache = {}
    /\ BreakIdle

\* The call returns r.v or raises r.err.
Returns(r) ==
    IF r.err # "none"
    THEN pc' = "raised" /\ err' = r.err /\ UNCHANGED res
    ELSE pc' = "done" /\ res' = r /\ UNCHANGED err

index_of_coincidence_call ==
    /\ call = "index_of_coincidence" /\ pc = "init"
    /\ Returns(index_of_coincidence(text, table))
    /\ UNCHANGED <<variFixed, i, key, variVars>>

vigenere_tetragram_freq_call ==
    /\ call = "vigenere_tetragram_freq" /\ pc = "init"
    /\ Returns(vigenere_tetragram_freq(text, table))
    /\ UNCHANGED <<variFixed, i, key, variVars>>

vigenere_fitness_call ==
    /\ call = "vigenere_fitness" /\ pc = "init"
    /\ Returns(vigenere_fitness(text, table))
    /\ UNCHANGED <<variFixed, i, key, variVars>>

\* One pass of the while True loop of find_period.
find_period_loop ==
    /\ call = "find_period" /\ pc \in {"init", "run"}
    /\ period' = period + 1
    /\ LET mean == MeanIoc(text, table, period + 1)
       IN  ioc' = IF mean.err # "none" THEN [NoQuotient EXCEPT !.err = mean.err] ELSE mean
    /\ IF ioc'.err # "none"
       THEN pc' = "raised" /\ err' = ioc'.err /\ UNCHANGED res
       ELSE IF Exceeds(ioc'.v)
       THEN pc' = "done" /\ res' = Ok(period + 1) /\ UNCHANGED err
       ELSE pc' = "run" /\ UNCHANGED <<err, res>>
    /\ UNCHANGED <<variFixed, i, key, fit, chosen, K>>

\* vigenere_break_vari up to its loop: period = find_period(text, alphabet),
\* key = ['A'] * period, fit = -99.
vigenere_break_vari ==
    /\ call = "vigenere_break_vari" /\ pc = "init"
    /\ LET p == find_period(text, table)
       IN  IF p.err # "none"
           THEN pc' = "raised" /\ err' = p.err /\ UNCHANGED <<key, period, fit>>
           ELSE /\ pc' = "run"
                /\ period' = p.v
                /\ key' = PyList([a \in 1 .. p.v |-> PyStr(<<65>>)])
                /\ fit' = <<-99, 1>>
                /\ UNCHANGED err
    /\ UNCHANGED <<variFixed, i, res, chosen, K, ioc>>

\* while fit < -10: K = key[:]; x = random.randrange(period)
vigenere_break_vari_loop ==
    /\ call = "vigenere_break_vari" /\ pc = "run"
    /\ QuotGreater(<<-10, 1>>, fit)
    /\ K' = key.s
    /\ chosen' \in 0 .. (period - 1)
    /\ i' = 0
    /\ pc' = IF TLen(table) = 0 THEN "run" ELSE "for"
    /\ UNCHANGED <<variFixed, key, err, res, period, fit, ioc>>

\* One pass of for i, _ in enumerate(alphabet): K[x] = alphabet[i], the
\* trial key decrypts the text, the plaintext is scored, and a score above
\* fit replaces key and fit.
vigenere_break_vari_trial ==
    /\ call = "vigenere_break_vari" /\ pc = "for"
    /\ LET trial == [K EXCEPT ![chosen + 1] = PyStr(<<table.syms[i + 1]>>)]
           pt == vigenere_decrypt_str(text, join(trial), table)
           F == IF pt.err # "none" THEN pt ELSE vigenere_fitness(pt.v, table)
       IN  /\ K' = trial
           /\ IF F.err # "none"
              THEN pc' = "raised" /\ err' = F.err /\ UNCHANGED <<key, fit>>
              ELSE /\ IF Improves(F.v, fit)
                      THEN key' = PyList(trial) /\ fit' = F.v
                      ELSE UNCHANGED <<key, fit>>
                   /\ pc' = IF i + 1 = TLen(table) THEN "run" ELSE "for"
                   /\ UNCHANGED err
    /\ i' = i + 1
    /\ UNCHANGED <<variFixed, res, period, chosen, ioc>>

\* return ("".join(key), vigenere_decrypt_str(text, "".join(key), alphabet))
vigenere_break_vari_return ==
    /\ call = "vigenere_break_vari" /\ pc = "run"
    /\ ~QuotGreater(<<-10, 1>>, fit)
    /\ LET pt == vigenere_decrypt_str(text, join(key.s), table)
       IN  IF pt.err # "none"
           THEN pc' = "raised" /\ err' = pt.err /\ UNCHANGED res
           ELSE pc' = "done" /\ res' = Ok(<<join(key.s), pt.v>>) /\ UNCHANGED err
    /\ UNCHANGED <<variFixed, i, key, variVars>>

NextVari ==
    \/ index_of_coincidence_call
    \/ vigenere_tetragram_freq_call
    \/ vigenere_fitness_call
    \/ find_period_loop
    \/ vigenere_break_vari
    \/ vigenere_break_vari_loop
    \/ vigenere_break_vari_trial
    \/ vigenere_break_vari_return

SpecVari == InitVari /\ [][NextVari]_vars

\* The calls of find_period alone.  The loop is straight-line code in one
\* thread: the interpreter runs its next pass whenever there is one.
InitPeriod ==
    /\ InitVari
    /\ call = "find_period"
    /\ text \in SeqsUpTo({97, 98}, 0, MaxVariText)
    /\ table = StrTable(<<97, 98>>)

FairSpecPeriod == InitPeriod /\ [][find_period_loop]_vars /\ WF_vars(find_period_loop)

\* ================================================================== claims

Consumed == pc \in {"run", "done", "raised"} /\ i > 0

\* C1: Caesar round trip (src/src/encrypt.py).  For every duplicate-free
\* alphabet, every integer key and every text, decrypt(encrypt(T, k, A), k, A)
\* raises nothing and yields, position by position, the symbol of T it read:
\* after i symbols of T it has yielded i symbols and the last one is T[i-1].
C1_CaesarRoundTrip ==
    (rev = "v2" /\ call = "caesar") =>
        /\ err = "none"
        /\ pc # "raised"
        /\ pc \in {"run", "done"} => nout = i
        /\ pc = "done" => nout = n
        /\ Consumed => dec = sym

\* A finished round trip over a text of full length with a key larger than
\* the alphabet, whose last symbol was really shifted and restored.
C1_Witness ==
    /\ rev = "v2" /\ call = "caesar" /\ pc = "done"
    /\ n = MaxText /\ nout = n
    /\ key.n > TLen(table)
    /\ enc # sym /\ dec = sym

\* C2: Vigenere round trip (src/src/encrypt.py).  For every non-empty key of
\* integers or symbols, present in the alphabet or not, the round trip
\* completes without error and restores every symbol of T.
C2_VigenereRoundTrip ==
    (rev = "v2" /\ call = "vigenere") =>
        /\ err = "none"
        /\ pc # "raised"
        /\ pc \in {"run", "done"} => nout = i
        /\ Consumed => dec = sym

\* C4: pass-through policy in every revision.  A symbol that is not in the
\* alphabet comes out of the Caesar transform unchanged, without an error
\* and without being dropped, in src/encrypt.py and in src/src/encrypt.py.
C4_PassThrough ==
    (call = "caesar" /\ Consumed /\ ~InTable(sym[1], table)) =>
        /\ err = "none"
        /\ enc = sym
        /\ nout = i

\* C5: shift_symbol on a symbol of the alphabet (src/src/encrypt.py).  The
\* result is a symbol of A whose index is (index(s) + offset) mod |A|; an
\* offset that is a multiple of |A|, 0 included, returns s itself.
C5_ShiftInAlphabet ==
    (rev = "v2" /\ call = "caesar" /\ Consumed /\ InTable(sym[1], table)) =>
        /\ Len(enc) = 1
        /\ InTable(enc[1], table)
        /\ \E m \in (-(MaxShift + 1)) .. (MaxShift + 1) :
              Index(table, enc[1]) = Index(table, sym[1]) + key.n + m * TLen(table)
        /\ Index(table, enc[1]) \in 0 .. (TLen(table) - 1)
        /\ (\E m \in (-MaxShift) .. MaxShift : key.n = m * TLen(table)) => enc = sym

\* A negative offset wrapping below index 0 to another symbol of the alphabet.
C5_Witness ==
    /\ rev = "v2" /\ call = "caesar" /\ Consumed
    /\ InTable(sym[1], table)
    /\ key.n < 0
    /\ Index(table, sym[1]) + key.n < 0
    /\ enc # sym

\* What the Vigenere generator of the revision under test must yield for the
\* symbol s read at 0-based position pos: shift_symbol(s, d, A) with d the
\* sub-key key[pos mod |key|], hashed unless it is an int, negated when rv.
SubKey(pos) == Elements(key)[(pos % Len(key.s)) + 1]

KeyOffset(pos) ==
    IF SubKey(pos).t = "int" THEN Ok(SubKey(pos).n)
    ELSE IF rev = "v1" THEN hash_sequence_v1(SubKey(pos), table)
    ELSE hash_sequence(SubKey(pos), table)

Expected(pos, s, rv) ==
    LET d == KeyOffset(pos)
        off == PyInt(IF rv THEN -d.v ELSE d.v)
    IN  IF d.err # "none" THEN d
        ELSE IF rev = "v1" THEN shift_symbol_v1(s, off, table)
        ELSE shift_symbol(s, off, table)

\* C8: Vigenere per-position key, in both revisions.  The element yielded
\* for text position i (every element counted, also those that pass through)
\* is shift_symbol(text[i], d, A), d being key[i mod |key|] when it is an
\* int and its hash otherwise, negated when reverse; the generator raises
\* exactly when that expression raises.
C8_PerPositionKey ==
    (call \in {"vigenere", "vigenere_shift"} /\ Consumed) =>
        LET e == Expected(i - 1, sym[1], call = "vigenere_shift" /\ reverse)
            d == Expected(i - 1, e.v, TRUE)
        IN  IF e.err # "none"
            THEN pc = "raised" /\ err = e.err /\ enc = <<>>
            ELSE /\ enc = <<e.v>>
                 /\ IF ~Roundtrip THEN err = "none" /\ nout = i
                    ELSE IF d.err # "none" THEN pc = "raised" /\ err = d.err
                    ELSE err = "none" /\ dec = <<d.v>> /\ nout = i

\* A two-element key, an int and a symbol, used a second time round (text
\* position 2 takes key[0] again) after a symbol outside the alphabet was
\* read, the symbol at position 2 being shifted and restored.
C8_Witness ==
    /\ rev = "v2" /\ call = "vigenere" /\ pc = "run"
    /\ key.t = "list" /\ Len(key.s) = 2
    /\ key.s[1].t = "int" /\ key.s[2].t = "str"
    /\ i = 3
    /\ passed
    /\ enc # sym /\ dec = sym

\* C9: assert_len.  A call of vigenere_shift_sequence with assert_len and a
\* key whose length differs from the text's fails with an error and yields
\* no symbol; with equal lengths it runs as without assert_len.
C9_AssertLen ==
    (call = "vigenere_shift" /\ assert_len /\ pc # "init") =>
        IF Len(key.s) # n THEN err # "none" /\ nout = 0
        ELSE Consumed => C8_PerPositionKey

\* The characters of a key given as a sequence of symbols.
KeyChars(k) == IF k.t = "str" THEN k.s ELSE [a \in DOMAIN k.s |-> k.s[a].s[1]]

\* The sum of the alphabet indices of the characters that are in the table.
RECURSIVE IndexSum(_, _)
IndexSum(q, tb) ==
    IF q = <<>> THEN 0
    ELSE (IF InTable(q[1], tb) THEN Index(tb, q[1]) ELSE 0) + IndexSum(Tail(q), tb)

\* C6: hash_sequence, in both revisions.  For a key given as a sequence of
\* symbols, a passphrase included, the result is the sum of the indices of
\* the key's symbols that are in A, modulo |A|; no error is raised and the
\* result is in 0..|A|-1.
C6_HashSum ==
    (call = "hash" /\ pc = "done") =>
        /\ res.err = "none"
        /\ res.v = IndexSum(KeyChars(key), table) % TLen(table)
        /\ res.v \in 0 .. (TLen(table) - 1)

\* C7: invert_table fails with an error on an alphabet with a duplicate
\* symbol, and maps A[i] to i for every i of a duplicate-free alphabet.
C7_InvertTable ==
    (call = "invert" /\ pc = "done") =>
        IF NoDup(table.syms)
        THEN /\ res.err = "none"
             /\ \A a \in DOMAIN table.syms : res.v[table.syms[a]] = a - 1
        ELSE res.err # "none"

\* C10: byte-stream round trip (encrypt_file.py over src/src/encrypt.py and
\* over src/encrypt.py).  For every byte sequence and every non-empty
\* passphrase, with the key the list of character codes and the alphabet
\* 0..255, decrypting the encrypted file restores it, for caesar and for
\* vigenere, no run fails and every byte written is in 0..255.
C10_ByteRoundTrip ==
    /\ err = "none"
    /\ pc # "raised"
    /\ \A a \in DOMAIN outfile : outfile[a] \in 0 .. (ByteCount - 1)
    /\ (pc = "done" /\ run = "decrypt") => outfile = plain

\* C3: Enigma round trip (src/src/encrypt.py).  For every stack of rotors,
\* every offsets tuple of the same length and every text over the union of
\* the rotor alphabets, the tuple returned
\* by enigma_decrypt_sequence for the tuple enigma_encrypt_sequence returned
\* is the text, with the cache of enigma_apply_recursive in effect.
C3_EnigmaRoundTrip ==
    (/\ call = "enigma" /\ pc = "done" /\ trav = 2
     /\ Range(text) \subseteq UNION {Range(rotors[k].alphabet) : k \in DOMAIN rotors})
        => back = text

\* The rotation of init_mapping by position, written out index by index.
Rotation(m, p) == [a \in 1 .. Len(m) |-> m[((a - 1 + p) % Len(m)) + 1]]

RotorInvariant(r) ==
    /\ 0 <= r.position /\ r.position < Len(r.alphabet)
    /\ mapping_list(r) = Rotation(r.init_mapping, r.position)
    /\ Len(mapping_list(r)) = Len(r.alphabet)
    /\ Range(mapping_list(r)) = Range(r.alphabet)
    /\ \A x \in Range(r.alphabet) :
          /\ EnigmaRotor_getitem(r, EnigmaRotor_call(r, x)) = x
          /\ EnigmaRotor_call(r, EnigmaRotor_getitem(r, x)) = x

\* C11: rotor bijection invariant.  Every rotor object the engine constructs
\* (for any offset, negative or beyond the alphabet) keeps, after any number
\* of advances, 0 <= position < |alphabet|; its mapping_list is init_mapping
\* rotated by position and a full permutation of the alphabet; and backward
\* and forward undo each other on every symbol of the alphabet.
C11_RotorBijection ==
    call = "enigma" => \A k \in DOMAIN ctx : RotorInvariant(ctx[k])

\* A rotor built from a negative offset has advanced and wrapped to 0.
C11_Witness ==
    /\ call = "enigma" /\ pc = "run" /\ i >= 1
    /\ \E k \in DOMAIN ctx : offsets[k] = -1 /\ ctx[k].position = 0

\* C12: frame of the Enigma calls.  No step of enigma_encrypt_sequence or
\* enigma_decrypt_sequence changes the position, the init_mapping or the
\* alphabet of a rotor the caller supplied.
C12_CallerRotorsUnchanged == [][rotors' = rotors]_vars

\* A round trip is over, and a rotor of the last traversal stands at another
\* position than the caller's rotor it was made from.
C12_Witness ==
    /\ call = "enigma" /\ pc = "done" /\ trav = 2 /\ Len(text) >= 1
    /\ \E k \in DOMAIN ctx : ctx[k].position # rotors[k].position

\* C13: rotor stack mismatch.  When the number of rotors differs from the
\* number of offsets the call raises ValueError at once: no traversal is
\* started and no output symbol is produced, for every text.
C13_StackMismatch ==
    (call = "enigma" /\ Len(rotors) # Len(offsets)) =>
        /\ pc \in {"init", "raised"}
        /\ pc = "raised" => err = "ValueError"
        /\ trav = 0 /\ ctx = <<>>
        /\ back = <<>>
        /\ run = "encrypt" => cipher = <<>>

\* enigma_decrypt_sequence has raised for the empty text and a stack longer
\* than the offsets.
C13_Witness ==
    /\ call = "enigma" /\ pc = "raised" /\ err = "ValueError"
    /\ run = "decrypt" /\ text = <<>>
    /\ Len(rotors) > Len(offsets) /\ Len(offsets) >= 1

\* The shift of the alphabet character c: its distance from the space.
ShiftOf(c) ==
    LET at(x) == CHOOSE a \in DOMAIN table.syms : table.syms[a] = x
    IN  (at(c) - at(SPACE)) % Len(table.syms)

\* The sum over the fragments of text.split(c) of (length - word_len) ** 2,
\* times freqs[2] ** 2, from the gaps between the occurrences of c.
GapDeviation(c) ==
    LET cuts == {0, Len(text) + 1} \cup {a \in DOMAIN text : text[a] = c}
        gap(b) == (CHOOSE x \in cuts : x > b /\ \A y \in cuts : y > b => x <= y) - b - 1
        term(b) == (freqs[2] * gap(b) - freqs[1]) * (freqs[2] * gap(b) - freqs[1])
    IN  SumSeq([a \in 1 .. Len(text) + 1 |-> IF a - 1 \in cuts THEN term(a - 1) ELSE 0])

\* C18: shift ranking.  For an alphabet containing the space,
\* caesar_guess_shift yields exactly the values (index(c) - index(space)) mod
\* |alphabet| of the alphabet characters c whose value lies in
\* [min_shift, max_shift], both bounds included, each once, in the order of
\* non-decreasing deviation of the fragments of text.split(c) from the
\* average word length; once exhausted it yields nothing further.
C18_ShiftRanking ==
    (call = "caesar_guess_shift" /\ InTable(SPACE, table)) =>
        LET chars == Range(table.syms)
            expected == {c \in chars : min_shift <= ShiftOf(c) /\ ShiftOf(c) <= max_shift}
            yielded == {c \in chars : ShiftOf(c) \in Range(keys)}
        IN  /\ pc \in {"init", "run", "done"}
            /\ NoDup(keys)
            /\ yielded \subseteq expected
            /\ Range(keys) \subseteq {ShiftOf(c) : c \in chars}
            /\ pc = "done" => yielded = expected
            /\ \A a, b \in DOMAIN keys :
                   a < b => \E c, d \in chars :
                       /\ ShiftOf(c) = keys[a] /\ ShiftOf(d) = keys[b]
                       /\ GapDeviation(c) <= GapDeviation(d)
            /\ \A c \in yielded : \A d \in expected \ yielded :
                   GapDeviation(c) <= GapDeviation(d)

\* The generator is exhausted and was asked again: it yielded the shifts 2
\* and then 1 of a three-character alphabet for the range [1, 2].
C18_Witness ==
    /\ call = "caesar_guess_shift" /\ pc = "done" /\ i >= 1
    /\ TLen(table) = 3 /\ InTable(SPACE, table)
    /\ min_shift = 1 /\ max_shift = 2
    /\ keys = <<2, 1>>

\* "ymjevznhpegwtasektb": "the quick brown fox" encrypted with the key 5 over
\* the lowercase letters followed by the space.
ExampleCiphertext ==
    <<121, 109, 106, 101, 118, 122, 110, 104, 112, 101, 103, 119, 116, 97, 115,
      101, 107, 116, 98>>

\* C14: the Caesar breaker example.  caesar_break on the ciphertext of "the
\* quick brown fox" under key 5 over lowercase + space, with that alphabet,
\* language 'en' and a word list holding the, quick, brown, fox, completes
\* and returns shift 5, whose count is greater than every other
\* candidate's, in every order in which the workers finish.
C14_BreakExample ==
    (call = "caesar_break" /\ text = ExampleCiphertext /\ table = LowercaseSpace) =>
        /\ pc # "raised"
        /\ pc = "done" =>
            /\ res.err = "none"
            /\ res.v[1] = 5
            /\ \A g \in guesses : g[1] # 5 => g[2] < res.v[2]

\* The example has returned, all 27 candidate shifts scored.
C14_Witness ==
    /\ call = "caesar_break" /\ text = ExampleCiphertext /\ table = LowercaseSpace
    /\ lang = "en"
    /\ {<<116, 104, 101>>, <<102, 111, 120>>} \subseteq words
    /\ pc = "done"
    /\ Cardinality(guesses) = 27
    /\ res = Ok(<<5, 4>>)

\* The tokens of the text decrypted under a shift that are words of the
\* dictionary, compared in lowercase and without the punctuation around them.
DictionaryWords(shift) ==
    LET decrypted == [a \in DOMAIN text |->
                         LET hits == {b \in DOMAIN table.syms : table.syms[b] = text[a]}
                         IN  IF hits = {} THEN text[a]
                             ELSE table.syms[(((CHOOSE b \in hits : TRUE) - 1 - shift)
                                              % Len(table.syms)) + 1]]
        tokens == split(decrypted, SPACE)
    IN  Cardinality({a \in DOMAIN tokens :
                        strip(lower(tokens[a]), {46, 32, 33, 63, 44}) \in words})

\* C15: candidate scoring.  The score of a candidate shift is the number of
\* space-delimited tokens of the text decrypted under that shift which,
\* case-insensitively and with punctuation stripped, are words of the
\* language's word list; other tokens add nothing.
C15_DictionaryScore ==
    /\ call = "caesar_break" => \A g \in guesses : g[2] = DictionaryWords(g[1])
    /\ call = "guess_text" => \A g \in guesses : g[1] = DictionaryWords(g[2])

\* The place of a shift in the order in which the candidates were generated.
CandidateOrder(shift) == CHOOSE a \in DOMAIN keys : keys[a] = shift

\* C16: candidate selection under concurrency.  For every order in which the
\* worker tasks complete, the returned shift is one with the highest match
\* count, and among several shifts with the highest count it is the one that
\* comes first in the candidate order.
C16_Selection ==
    (call \in {"caesar_break", "guess_text"} /\ pc = "done") =>
        LET best == IF call = "caesar_break" THEN res.v ELSE res.v[1]
            count(g) == IF call = "caesar_break" THEN g[2] ELSE g[1]
            shift(g) == IF call = "caesar_break" THEN g[1] ELSE g[2]
        IN  /\ best \in guesses
            /\ \A g \in guesses :
                /\ count(g) <= count(best)
                /\ count(g) = count(best) =>
                       CandidateOrder(shift(best)) <= CandidateOrder(shift(g))

\* C17: the timeout is a soft failure.  Whichever subset of the candidate
\* shifts is scored when the batch ends, the empty subset and the case of
\* no candidate at all included, the breaker ranks the completed results
\* and returns without raising an error.
C17_SoftTimeout ==
    (call \in {"caesar_break", "guess_text"} /\ pc \in {"done", "raised"}) =>
        /\ err # "IndexError"
        /\ keys # <<>> => pc = "done"
        /\ pc = "done" => res.err = "none"

\* The six buckets in their order: lowercase-only, uppercase-only,
\* all-letters, letters+digits, letters+digits+punctuation, other; the
\* first five as the symbols they hold, and the tags '1' .. '5', '0'.
Buckets ==
    <<97 .. 122,
      65 .. 90,
      (65 .. 90) \cup (97 .. 122),
      (48 .. 57) \cup (65 .. 90) \cup (97 .. 122),
      (33 .. 126) \ {SPACE}>>

Tags == <<49, 50, 51, 52, 53, 48>>

\* C19: alphabet classification.  caesar_guess_alphabet returns the tag of
\* the first bucket, in the order lowercase-only, uppercase-only,
\* all-letters, letters+digits, letters+digits+punctuation, other, that
\* holds every symbol of the text other than the space; "abcxyz" is
\* lowercase-only and "ABCXYZ123" letters+digits; the result is one of the
\* six tags.
C19_Classification ==
    (call = "caesar_guess_alphabet" /\ pc = "done") =>
        LET symbols == {text[a] : a \in DOMAIN text} \ {SPACE}
            fits == {k \in 1 .. 5 : symbols \subseteq Buckets[k]} \cup {6}
            first == CHOOSE k \in fits : \A j \in fits : k <= j
        IN  /\ res = Ok(<<Tags[first]>>)
            /\ res.v[1] \in Range(Tags)
            /\ text = <<97, 98, 99, 120, 121, 122>> => res.v = <<49>>
            /\ text = <<65, 66, 67, 88, 89, 90, 49, 50, 51>> => res.v = <<52>>

\* A text of an uppercase letter, a space and a digit is classified
\* letters+digits.
C19_Witness ==
    /\ call = "caesar_guess_alphabet" /\ pc = "done"
    /\ text = <<65, SPACE, 49>>
    /\ res = Ok(<<52>>)

\* The frequencies a frequency call returned, one for every symbol of its
\* table, and the symbols they belong to.
Symbols == IF call = "calculate_text_frequencies" THEN FREQUENCIES ELSE table.syms

Returned ==
    [a \in DOMAIN Symbols |->
        IF call = "calculate_text_frequencies" THEN res.v[a].frequency
        ELSE res.v[Symbols[a]]]

\* The occurrences of the symbol a of the table in the text.
Occurrences(a) == {b \in DOMAIN text : text[b] = Symbols[a]}

\* The recorded positions are the indices of the occurrences in increasing
\* order, and every frequency is the quotient of the number of occurrences
\* by the length of the text, in [0, 1].
PositionsAndQuotients ==
    /\ call = "calculate_text_frequencies" =>
           \A a \in DOMAIN Symbols :
               LET indices == res.v[a].indices
               IN  /\ res.v[a].letter = Symbols[a]
                   /\ {indices[b] + 1 : b \in DOMAIN indices} = Occurrences(a)
                   /\ \A b, c \in DOMAIN indices : b < c => indices[b] < indices[c]
    /\ \A a \in DOMAIN Returned :
           /\ Returned[a].p = Cardinality(Occurrences(a))
           /\ Returned[a].q = Len(text)
           /\ 0 <= Returned[a].p /\ Returned[a].p <= Returned[a].q
           /\ Returned[a].p \in {0, Returned[a].q} => Returned[a].s = 0
           /\ 2 * Returned[a].s <= Returned[a].q /\ 2 * Returned[a].s >= -Returned[a].q

\* The sum of the returned frequencies is at most 1.  A frequency is
\* (p + s / 2 ** (53 + x)) / q; with the sum of the p equal to q the sum is
\* above 1 exactly when the rounding errors s / 2 ** (53 + x) add up to
\* more than 0, and with the sum of the p below q the errors, far below
\* 2 ** 53 in all, do not reach the missing 1 / q.
SumAtMostOne ==
    LET X == CHOOSE x \in {Returned[a].x : a \in DOMAIN Returned} :
                 \A a \in DOMAIN Returned : Returned[a].x <= x
        errors == SumSeq([a \in DOMAIN Returned |-> Returned[a].s * (2 ^ (X - Returned[a].x))])
        missing == Len(text) - SumSeq([a \in DOMAIN Returned |-> Returned[a].p])
    IN  IF missing = 0 THEN errors <= 0
        ELSE missing > 0 /\ errors < 2 ^ 30

\* C20: letter frequencies, as stated.  For every non-empty text and every
\* symbol of the frequency table the recorded positions are exactly the
\* indices of the symbol in increasing order, the frequency is the number of
\* positions divided by the total text length, each frequency is in [0, 1],
\* and the frequencies of all symbols sum to at most 1.
C20_Frequencies ==
    (call \in {"calculate_text_frequencies", "vigenere_monogram_freq"} /\ pc = "done") =>
        /\ PositionsAndQuotients
        /\ SumAtMostOne

\* C20 as amended: the frequency is the double nearest to the number of
\* positions divided by the total text length, within 2 ** -54 of it and in
\* [0, 1]; the numbers of positions sum to at most the text length, so the
\* frequencies sum to at most 1 up to the rounding of the divisions.
C20_FrequenciesRounded ==
    (call \in {"calculate_text_frequencies", "vigenere_monogram_freq"} /\ pc = "done") =>
        /\ PositionsAndQuotients
        /\ SumSeq([a \in DOMAIN Returned |-> Returned[a].p]) <= Len(text)

\* calculate_text_frequencies returned for "abbbb": the doubles of 1 / 5 and
\* 4 / 5 are both above their quotients and add up to more than 1.
C20_Witness ==
    /\ call = "calculate_text_frequencies" /\ pc = "done"
    /\ text = <<97, 98, 98, 98, 98>>
    /\ res.v[1].frequency.s > 0 /\ res.v[2].frequency.s > 0
    /\ ~SumAtMostOne

\* C30: caesar_break without an alphabet.  The working alphabet handed to
\* shift guessing and decryption is the standard alphabet that
\* caesar_guess_alphabet identifies for the text; it contains the space, so
\* the assertion of caesar_guess_shift holds and the break completes with a
\* ranked result.
C30_GuessedAlphabet ==
    (call = "caesar_break" /\ lang \in langs /\ pc # "init"
        /\ table \notin BreakAlphabets \cup {LowercaseSpace}) =>
        /\ InTable(SPACE, table)
        /\ pc # "raised"
        /\ pc = "done" => res.err = "none"

\* The rotors r[1], ..., r[m] applied forward in this order to x, without
\* the cache.
RECURSIVE Forward(_, _, _)
Forward(r, m, x) ==
    IF m = 0 THEN x ELSE EnigmaRotor_call(r[m], Forward(r, m - 1, x))

\* The inverses of the rotors r[Len(r)], ..., r[m] applied in this order.
RECURSIVE Backward(_, _, _)
Backward(r, m, x) ==
    IF m > Len(r) THEN x ELSE EnigmaRotor_getitem(r[m], Backward(r, m + 1, x))

\* The symbol the traversal has just produced.
LastOutput == IF run = "encrypt" THEN cipher[i] ELSE back[i]

\* C22: rotor-stack composition order.  Every symbol encrypted is the input
\* symbol passed through rotor 0 first and the last rotor last, every symbol
\* decrypted is passed through the inverse of the last rotor first and of
\* rotor 0 last, the rotors being in the positions of that symbol; a symbol
\* outside a rotor's alphabet passes that stage unchanged and the empty
\* stack returns the symbol.
C22_CompositionOrder ==
    (call = "enigma" /\ pc = "run" /\ i >= 1) =>
        LastOutput = IF run = "encrypt"
                     THEN Forward(ctx, Len(ctx), EnigmaInput[i])
                     ELSE Backward(ctx, 1, EnigmaInput[i])

\* The rotors an entry of the cache was stored for, in their present state,
\* and the value enigma_apply_recursive computes for them without the cache.
EntryRotors(e) == [a \in DOMAIN e.key.ids |-> ctx[e.key.ids[a][2]]]

Uncached(e) ==
    IF e.key.kw = "inverted=True"
    THEN Backward(EntryRotors(e), 1, e.key.sym)
    ELSE Forward(EntryRotors(e), Len(e.key.ids), e.key.sym)

\* An entry the cache answers with for the rotor objects of the traversal in
\* progress as they stand: the same objects and the same hash.
Answers(e) ==
    /\ \A a \in DOMAIN e.key.ids : e.key.ids[a] = RotorObject(trav, e.key.ids[a][2])
    /\ e.h = <<SymbolHash(e.key.sym),
               [a \in DOMAIN e.key.ids |-> EnigmaRotor_hash(EntryRotors(e)[a])], e.key.kw>>

\* C24: memoisation soundness.  The cache of enigma_apply_recursive answers
\* for a rotor stack only with a result computed for the same permutation
\* state and position of every rotor: whatever entry it returns for the
\* rotors as they stand holds the value the uncached computation gives, and
\* no result stored at one position is returned at another.
C24_MemoisationSound ==
    (call = "enigma" /\ pc = "run") =>
        \A e \in cache : Answers(e) => e.v = Uncached(e)

\* C23: stepping.  Between two consecutive symbols of a traversal every
\* rotor of the stack advances by exactly one position modulo the size of
\* its alphabet, also when the symbol passes a rotor unchanged; no rotor
\* carries into another and nothing else of a rotor changes.
C23_Stepping ==
    [][(call = "enigma" /\ pc = "run" /\ i' = i + 1) =>
          /\ DOMAIN ctx' = DOMAIN ctx
          /\ \A k \in DOMAIN ctx :
                ctx'[k] = [ctx[k] EXCEPT
                              !.position = (ctx[k].position + 1) % Len(ctx[k].alphabet)]]_vars

\* Two rotors with alphabets of different sizes have taken two symbols: the
\* first has wrapped around while the second has not, and the second
\* symbol is outside the alphabet of the first rotor.
C23_Witness ==
    /\ call = "enigma" /\ pc = "run" /\ i = 2 /\ Len(ctx) = 2
    /\ Len(ctx[1].alphabet) = 2 /\ Len(ctx[2].alphabet) = 3
    /\ offsets = <<0, 0>>
    /\ ctx[1].position = 0 /\ ctx[2].position = 2
    /\ EnigmaInput[2] \notin Range(ctx[1].alphabet)

\* C28: offsets and the first step.  When symbol number i (counted from 1)
\* is processed, rotor k is the caller's rotor k with the position
\* (offsets[k] + i) mod the size of its alphabet, in both directions: every
\* rotor has been advanced once before the first symbol.  The position of
\* the rotor object the caller supplied does not enter: the rotors of the
\* traversal are the same for every position the caller's rotors could be in.
C28_OffsetPositions ==
    (call = "enigma" /\ pc = "run") =>
        /\ Len(ctx) = Len(rotors)
        /\ \A k \in DOMAIN ctx :
              ctx[k] = EnigmaRotor(rotors[k].alphabet,
                                   (offsets[k] + i) % Len(rotors[k].alphabet),
                                   rotors[k].init_mapping)
        /\ \A p \in 0 .. 2 :
              EnigmaContext_rotors([k \in DOMAIN rotors |-> [rotors[k] EXCEPT !.position = p]],
                                   offsets)
                 = EnigmaContext_rotors(rotors, offsets)

\* The first symbol of a decryption has been processed with a rotor at
\* position 1 (offset 0) while the caller's rotor stands at position 2.
C28_Witness ==
    /\ call = "enigma" /\ pc = "run" /\ run = "decrypt" /\ i = 1
    /\ Len(ctx) >= 1 /\ offsets[1] = 0
    /\ ctx[1].position = 1 /\ rotors[1].position = 2
    /\ Len(back) = 1

\* The text holds only symbols of the alphabet.
OverAlphabet == Range(text) \subseteq Range(table.syms)

\* The ordered pairs of different positions that hold the same symbol: the
\* sum of n_i * (n_i - 1) over the symbols.
Coincidences(txt) ==
    Cardinality({pr \in (DOMAIN txt) \X (DOMAIN txt) : pr[1] # pr[2] /\ txt[pr[1]] = txt[pr[2]]})

\* C21: index of coincidence.  For every text of N >= 2 symbols over the
\* alphabet A, index_of_coincidence returns the quotient of |A| times the
\* sum of n_i * (n_i - 1) by N * (N - 1), which is exactly |A| for one
\* symbol repeated; for N <= 1 it raises an error and returns no number.
C21_IndexOfCoincidence ==
    (call = "index_of_coincidence" /\ pc # "init" /\ OverAlphabet) =>
        IF Len(text) <= 1
        THEN pc = "raised" /\ err = "ZeroDivisionError" /\ res = NoResult
        ELSE /\ pc = "done"
             /\ res.v = <<TLen(table) * Coincidences(text), Len(text) * (Len(text) - 1)>>
             /\ Cardinality(Range(text)) = 1 => res.v[1] = TLen(table) * res.v[2]

\* "aaabb" over "abcd": 4 * 8 / 20.
C21_Witness ==
    /\ call = "index_of_coincidence" /\ pc = "done"
    /\ text = <<97, 97, 97, 98, 98>> /\ TLen(table) = 4
    /\ res.v = <<32, 20>>

\* The mean index of coincidence of the p interleaved slices exceeds 1.6.
MeanExceeds(p) ==
    LET m == MeanIoc(text, table, p)
    IN  m.err = "none" /\ 5 * m.v[1] > 8 * m.v[2]

C29_Termination ==
    /\ []((call = "find_period" /\ OverAlphabet) =>
            /\ period <= (Len(text) \div 2) + 1
            /\ pc = "done" => res.v = period /\ 1 <= period /\ period <= Len(text) \div 2
            /\ pc = "raised" =>
                  err = "ZeroDivisionError" /\ period = (Len(text) \div 2) + 1)
    /\ (call = "find_period") ~> (pc \in {"done", "raised"})

\* "abaab" over "ab": the periods 1 and 2 are rejected and period 3 raises.
C29_Witness ==
    /\ call = "find_period" /\ pc = "raised" /\ err = "ZeroDivisionError"
    /\ text = <<97, 98, 97, 97, 98>> /\ table.syms = <<97, 98>>
    /\ period = 3

\* C27: tetragram table.  For a text of at least 4 symbols over the alphabet
\* vigenere_tetragram_freq returns a table with one entry per 4-symbol
\* combination, each the number of windows of that combination divided by
\* len(text) - 3, the entries summing to 1, and vigenere_fitness looks up
\* every window in it and returns a number.
C27_TetragramTable ==
    (Len(text) >= 4 /\ OverAlphabet /\ pc # "init") =>
        /\ call = "vigenere_tetragram_freq" =>
              /\ pc = "done"
              /\ res.v.t = "list"
              /\ res.v.s = tetrafrequencies(text, table)
              /\ SumSeq([x \in DOMAIN res.v.s |-> res.v.s[x][1]]) = Len(text) - 3
        /\ call = "vigenere_fitness" => pc = "done"

====
